---- MODULE Spec2Model ----
(***************************************************************************)
(* Panel state synchronisation engine of streamdeck-pi-manager:            *)
(* ConfigManager (core/config.py), DeckController (core/controller.py),    *)
(* the swap/move/update endpoints (web/api.py) and the chunked strip       *)
(* transfer DeckController._send_neo_image.                                *)
(***************************************************************************)
EXTENDS Integers, Sequences, FiniteSets, TLC

\* ------------------------------------------------------------------ bounds
\* key_count reported by the connected device (device.py:50)
KeyCount == 2
\* most pages held at once (create_page is disabled beyond it)
MaxPages == 2
\* most buttons held over all pages (update_button adds none beyond it)
MaxButtons == 3
\* key_count assumed by move_button when no device was ever read (api.py:361)
DefaultKeyCount == 32

VARIABLES
    config,       \* DeckController.config: [pages, current_page_id]
    disk,         \* the persisted document at ConfigManager.config_path
    connected,    \* StreamDeckManager.is_connected()
    device_info,  \* StreamDeckManager.device_info
    tiles,        \* what each physical key shows
    strip,        \* what the info screen shows
    lastOp,       \* the operation that ran last and how it ended
    watch,        \* the operations whose outcome lastOp records (fixed per run)
    \* -- DeckController._send_neo_image (one transfer)
    jpeg_data, page_number, bytes_remaining, reports, xfer,
    \* -- the request thread and the key-callback thread, step by step
    apiPc, apiReq, hwPc, hwReq,
    \* -- device writes: where each thread's render is, who holds
    \* StreamDeckManager._lock, and the writes the device handle has seen
    render, lock, wire,
    \* -- key events the vendor library delivered, and the execute_plugin
    \* calls made
    events, calls

vars == <<config, disk, connected, device_info, tiles, strip, lastOp, watch,
          jpeg_data, page_number, bytes_remaining, reports, xfer,
          apiPc, apiReq, hwPc, hwReq, render, lock, wire, events, calls>>

ctlVars == <<config, disk, connected, device_info, tiles, strip, lastOp>>
xferVars == <<jpeg_data, page_number, bytes_remaining, reports, xfer>>
thrVars == <<apiPc, apiReq, hwPc, hwReq, render, lock, wire, events, calls>>

\* ------------------------------------------------------------ basic values
Null == "null"

\* the server's event-loop thread and the vendor library's reader thread
Threads == {"api", "hw"}
AtRest == [pc |-> "idle", i |-> 0]

Min(S) == CHOOSE x \in S : \A y \in S : x <= y

\* slots a button can sit at in the model: the device's keys and one beyond
Slots == 0 .. KeyCount
DeviceSlots == 0 .. (KeyCount - 1)

\* str(k) of Page.to_dict and int(k) of Page.from_dict for the slots in use
SlotStrings == <<"0", "1", "2", "3", "4", "5">>
StrOf(k) == SlotStrings[k + 1]
IntOf(s) == CHOOSE k \in 0 .. (Len(SlotStrings) - 1) : SlotStrings[k + 1] = s
\* no top-level key taken for a slot number
IsDigit_never(s) == FALSE
IsDigit(s) == \E k \in 0 .. (Len(SlotStrings) - 1) : SlotStrings[k + 1] = s

DefaultBg == <<0, 0, 0>>
DefaultText == <<255, 255, 255>>
NoColor == <<>>

NoAction == [type |-> "null", plugin_id |-> Null]

\* Button(key=...) with the dataclass defaults
DefaultButton(k) ==
    [key |-> k, label |-> "", icon |-> Null, action |-> NoAction,
     bg_color |-> DefaultBg, text_color |-> DefaultText,
     font_size |-> 14, enabled |-> TRUE]

\* ButtonConfigRequest bodies the update endpoint is called with
ButtonRequests ==
    { [label |-> "A", icon |-> Null, action_type |-> "plugin", plugin_id |-> "cpu",
       bg_color |-> DefaultBg, text_color |-> DefaultText,
       font_size |-> 14, enabled |-> TRUE],
      [label |-> "B", icon |-> "x", action_type |-> "none", plugin_id |-> Null,
       bg_color |-> <<5, 5, 5>>, text_color |-> DefaultText,
       font_size |-> 14, enabled |-> FALSE] }

\* Button built by the update endpoint from a request
ButtonOfRequest(k, r) ==
    [key |-> k, label |-> r.label, icon |-> r.icon,
     action |-> IF r.action_type # "none" /\ r.plugin_id # Null
                THEN [type |-> r.action_type, plugin_id |-> r.plugin_id]
                ELSE NoAction,
     bg_color |-> r.bg_color, text_color |-> r.text_color,
     font_size |-> r.font_size, enabled |-> r.enabled]

\* ------------------------------------------------- Button / Page <-> dict
ButtonToDict(b) ==
    [key |-> b.key, label |-> b.label, icon |-> b.icon,
     action |-> IF b.action # NoAction
                THEN [type |-> b.action.type, plugin_id |-> b.action.plugin_id]
                ELSE NoAction,
     bg_color |-> b.bg_color, text_color |-> b.text_color,
     font_size |-> b.font_size, enabled |-> b.enabled]

ButtonFromDict(d) ==
    [key |-> d.key, label |-> d.label, icon |-> d.icon,
     action |-> IF d.action # NoAction
                THEN [type |-> d.action.type, plugin_id |-> d.action.plugin_id]
                ELSE NoAction,
     bg_color |-> d.bg_color, text_color |-> d.text_color,
     font_size |-> d.font_size, enabled |-> d.enabled]

\* a page entry of config["pages"]: the dict key and the Page stored under it
PageToDict(p) ==
    [key |-> p.key, id |-> p.id, title |-> p.title,
     buttons |-> [s \in {StrOf(k) : k \in DOMAIN p.buttons} |->
                     ButtonToDict(p.buttons[IntOf(s)])],
     bg_color |-> p.bg_color, text_color |-> p.text_color]

PageFromDict(d) ==
    [key |-> d.key, id |-> d.id, title |-> d.title,
     buttons |-> [k \in {IntOf(s) : s \in DOMAIN d.buttons} |->
                     ButtonFromDict(d.buttons[StrOf(k)])],
     bg_color |-> d.bg_color, text_color |-> d.text_color]

NewPage(page_id, title) ==
    [key |-> page_id, id |-> page_id, title |-> title,
     buttons |-> [k \in {} |-> DefaultButton(0)],
     bg_color |-> NoColor, text_color |-> NoColor]

\* ------------------------------------------------------ persisted document
\* kind: "absent" (no file), "invalid" (not JSON), "object" (a JSON object
\* with the numeric top-level keys `numeric`, and "pages"/"current_page_id"
\* when has_pages/has_current)
NoButtons == [k \in {} |-> DefaultButton(0)]
NoButtonDocs == [s \in {} |-> DefaultButton(0)]

Doc(kind, numeric, has_pages, pages, has_current, current) ==
    [kind |-> kind, numeric |-> numeric, has_pages |-> has_pages, pages |-> pages,
     has_current |-> has_current, current_page_id |-> current]

AbsentDoc == Doc("absent", NoButtonDocs, FALSE, <<>>, FALSE, Null)
InvalidDoc == Doc("invalid", NoButtonDocs, FALSE, <<>>, FALSE, Null)

default_config ==
    [pages |-> <<NewPage("default", "Home")>>, current_page_id |-> "default"]

\* ConfigManager.load_config
load_config(d) ==
    IF d.kind = "absent" THEN default_config
    ELSE IF d.kind = "invalid" THEN default_config
    ELSE
      LET empty == DOMAIN d.numeric = {} /\ ~d.has_pages /\ ~d.has_current
          is_old_format == empty \/ (\E s \in DOMAIN d.numeric : IsDigit(s))
      IN IF is_old_format
         THEN [pages |-> << [key |-> "default", id |-> "default", title |-> "Home",
                             buttons |-> [k \in {IntOf(s) : s \in DOMAIN d.numeric} |->
                                             ButtonFromDict(d.numeric[StrOf(k)])],
                             bg_color |-> NoColor, text_color |-> NoColor] >>,
               current_page_id |-> "default"]
         ELSE
           LET pages == IF d.has_pages
                        THEN [i \in 1 .. Len(d.pages) |-> PageFromDict(d.pages[i])]
                        ELSE <<>>
           IN IF pages = <<>> THEN default_config
              ELSE [pages |-> pages,
                    current_page_id |-> IF d.has_current THEN d.current_page_id
                                        ELSE pages[1].key]

\* a save that leaves "current_page_id" out of the document
SavedDoc_without_current(cfg) ==
    Doc("object", NoButtonDocs, TRUE,
        [i \in 1 .. Len(cfg.pages) |-> PageToDict(cfg.pages[i])],
        FALSE, Null)
\* the document ConfigManager.save_config writes
SavedDoc(cfg) ==
    Doc("object", NoButtonDocs, TRUE,
        [i \in 1 .. Len(cfg.pages) |-> PageToDict(cfg.pages[i])],
        TRUE, cfg.current_page_id)

\* --------------------------------------------------------- dict helpers
Put(m, k, v) == [x \in (DOMAIN m) \cup {k} |-> IF x = k THEN v ELSE m[x]]
Del(m, k) == [x \in (DOMAIN m) \ {k} |-> m[x]]

\* list(config["pages"].keys())
PageKeys(cfg) == [i \in 1 .. Len(cfg.pages) |-> cfg.pages[i].key]
HasPage(cfg, page_id) == \E i \in 1 .. Len(cfg.pages) : cfg.pages[i].key = page_id
PageIndex(cfg, page_id) == CHOOSE i \in 1 .. Len(cfg.pages) : cfg.pages[i].key = page_id
PageAt(cfg, page_id) == cfg.pages[PageIndex(cfg, page_id)]
SetButtons(cfg, page_id, m) ==
    [cfg EXCEPT !.pages[PageIndex(cfg, page_id)].buttons = m]
RemoveAt(seq, i) == [j \in 1 .. (Len(seq) - 1) |-> IF j < i THEN seq[j] ELSE seq[j + 1]]
ButtonCount(cfg) ==
    Cardinality({ik \in (1 .. Len(cfg.pages)) \X Slots :
                    ik[2] \in DOMAIN cfg.pages[ik[1]].buttons})

\* DeckController.get_current_page: the page, when there is one
HasCurrentPage(cfg) == HasPage(cfg, cfg.current_page_id)
get_current_page(cfg) == PageAt(cfg, cfg.current_page_id)

\* ------------------------------------------------------------ the device
DeckTypes == {"Stream Deck Neo"}
NoInfo == [type |-> Null, key_count |-> -1]
BlankTile == [blank |-> TRUE, label |-> "", icon |-> Null, font_size |-> 0,
              bg_color |-> DefaultBg, text_color |-> DefaultText]
AllBlank == [k \in DeviceSlots |-> BlankTile]
NoStrip == [title |-> Null, index |-> 0, total |-> 0,
            bg_color |-> NoColor, text_color |-> NoColor]

\* the page colour taken whenever the page has one
PageBg_page_first(button, page) ==
    IF page.bg_color # NoColor THEN page.bg_color ELSE button.bg_color
\* the colours a button is drawn with on its page
PageBg(button, page) ==
    IF button.bg_color = DefaultBg /\ page.bg_color # NoColor
    THEN page.bg_color ELSE button.bg_color
PageText(button, page) ==
    IF button.text_color = DefaultText /\ page.text_color # NoColor
    THEN page.text_color ELSE button.text_color

\* StreamDeckManager.set_button_text: the bitmap put on a key
ButtonTile(button, page) ==
    [blank |-> FALSE, label |-> button.label, icon |-> button.icon,
     font_size |-> button.font_size,
     bg_color |-> PageBg(button, page), text_color |-> PageText(button, page)]

\* an info screen that counts pages from zero
update_info_screen_zero_based(cfg, conn, info, old) ==
    IF ~conn \/ info.type # "Stream Deck Neo" THEN old
    ELSE IF ~HasCurrentPage(cfg) THEN old
    ELSE LET page == get_current_page(cfg)
             keys == PageKeys(cfg)
         IN [title |-> page.title,
             index |-> IF \E i \in 1 .. Len(keys) : keys[i] = page.id
                       THEN (CHOOSE i \in 1 .. Len(keys) : keys[i] = page.id) - 1
                       ELSE 0,
             total |-> Len(keys),
             bg_color |-> IF page.bg_color # NoColor THEN page.bg_color ELSE DefaultBg,
             text_color |-> IF page.text_color # NoColor THEN page.text_color
                            ELSE DefaultText]

\* DeckController.update_info_screen: what the info screen shows afterwards
update_info_screen(cfg, conn, info, old) ==
    IF ~conn \/ info.type # "Stream Deck Neo" THEN old
    ELSE IF ~HasCurrentPage(cfg) THEN old
    ELSE LET page == get_current_page(cfg)
             keys == PageKeys(cfg)
             current_idx == IF \E i \in 1 .. Len(keys) : keys[i] = page.id
                            THEN CHOOSE i \in 1 .. Len(keys) : keys[i] = page.id
                            ELSE 1
         IN [title |-> page.title, index |-> current_idx, total |-> Len(keys),
             bg_color |-> IF page.bg_color # NoColor THEN page.bg_color ELSE DefaultBg,
             text_color |-> IF page.text_color # NoColor THEN page.text_color
                            ELSE DefaultText]

\* keys a write reaches on a device with key_count keys
InRange(k, info) == 0 <= k /\ k < info.key_count

\* DeckController.render_current_page: the displays it can leave behind.
\* A write to a key the device does not have either raises in the vendor
\* library, ending the render with the keys written so far, or is dropped.
render_current_page(cfg, conn, info, oldTiles, oldStrip) ==
    IF ~conn \/ ~HasCurrentPage(cfg)
    THEN { [tiles |-> oldTiles, strip |-> oldStrip, raised |-> FALSE] }
    ELSE
      LET page == get_current_page(cfg)
          on == {k \in DOMAIN page.buttons : page.buttons[k].enabled}
          inside == {k \in on : InRange(k, info)}
          shown(S) == [k \in DeviceSlots |->
                          IF k \in S THEN ButtonTile(page.buttons[k], page)
                          ELSE BlankTile]
          newStrip == update_info_screen(cfg, conn, info, oldStrip)
      IN { [tiles |-> shown(inside), strip |-> newStrip, raised |-> FALSE] }
         \cup
         IF on = inside THEN {}
         ELSE { [tiles |-> shown(S), strip |-> newStrip, raised |-> TRUE] :
                  S \in SUBSET inside }

Status(raised) == IF raised THEN "error" ELSE "ok"
\* how a handler ended: its name, its result and the save_config calls it made;
\* handlers outside `watch` leave the same mark
Unwatched == [op |-> "other", args |-> <<>>, status |-> "ok", saves |-> 0]
Done(op, args, status, saves) ==
    IF op \in watch
    THEN [op |-> op, args |-> args, status |-> status, saves |-> saves]
    ELSE Unwatched

\* ---------------------------------------------------- pure parts of the
\* ---------------------------------------------------- swap/move endpoints
\* swap_buttons (api.py:314-334): the page's button map afterwards
swap_map(buttons, key1, key2) ==
    LET has1 == key1 \in DOMAIN buttons
        has2 == key2 \in DOMAIN buttons
        b1 == buttons[key1]
        b2 == buttons[key2]
        removed == Del(Del(buttons, key1), key2)
        with1 == IF has1 THEN Put(removed, key2, [b1 EXCEPT !.key = key2]) ELSE removed
        with2 == IF has2 THEN Put(with1, key1, [b2 EXCEPT !.key = key1]) ELSE with1
    IN IF ~has1 /\ ~has2 THEN buttons ELSE with2

\* a slot search that looks one index too far: range(key_count + 1)
first_empty_slot_beyond(buttons, key_count) ==
    LET free == {k \in 0 .. key_count : k \notin DOMAIN buttons}
    IN IF free = {} THEN -1 ELSE Min(free)

\* move_button (api.py:363-367): first empty slot of the target page, or -1
first_empty_slot(buttons, key_count) ==
    LET free == {k \in 0 .. (key_count - 1) : k \notin DOMAIN buttons}
    IN IF free = {} THEN -1 ELSE Min(free)

\* device_info.get("key_count", 32)
key_count_or_default(info) == IF info = NoInfo THEN DefaultKeyCount ELSE info.key_count

\* a delete_page that lacks the `len(pages) > 1` condition
can_delete_unguarded(cfg, page_id) == HasPage(cfg, page_id)

\* delete_page (controller.py:394): the pages it agrees to delete
can_delete(cfg, page_id) == HasPage(cfg, page_id) /\ Len(cfg.pages) > 1

\* a delete_page that makes the last remaining page current
delete_from_last(cfg, page_id) ==
    LET rest == RemoveAt(cfg.pages, PageIndex(cfg, page_id))
    IN [pages |-> rest,
        current_page_id |-> IF cfg.current_page_id = page_id /\ rest # <<>>
                            THEN rest[Len(rest)].key
                            ELSE cfg.current_page_id]

\* delete_page (controller.py:395-397): config after the page is removed;
\* list(...)[0] of no pages raises and leaves current_page_id as it was
delete_from(cfg, page_id) ==
    LET rest == RemoveAt(cfg.pages, PageIndex(cfg, page_id))
    IN [pages |-> rest,
        current_page_id |-> IF cfg.current_page_id = page_id /\ rest # <<>>
                            THEN rest[1].key
                            ELSE cfg.current_page_id]

\* a move that forgets `del source_page.buttons[source_key]`
copied_config(cfg, source_page_id, source_key, target_page_id, target_key) ==
    LET button == PageAt(cfg, source_page_id).buttons[source_key]
    IN SetButtons(cfg, target_page_id,
                  Put(PageAt(cfg, target_page_id).buttons, target_key,
                      [button EXCEPT !.key = target_key]))

\* move_button (api.py:373-375): config after the button went to target_key
moved_config(cfg, source_page_id, source_key, target_page_id, target_key) ==
    LET source_page == PageAt(cfg, source_page_id)
        button == source_page.buttons[source_key]
        removed == SetButtons(cfg, source_page_id, Del(source_page.buttons, source_key))
    IN SetButtons(removed, target_page_id,
                  Put(PageAt(removed, target_page_id).buttons, target_key,
                      [button EXCEPT !.key = target_key]))

\* a next_page that stops at the last page
next_page_id_clamped(cfg) ==
    LET pages == PageKeys(cfg)
        idx == PageIndex(cfg, cfg.current_page_id) - 1
    IN pages[(IF idx + 1 < Len(pages) THEN idx + 1 ELSE idx) + 1]

\* next_page / prev_page (controller.py:354-356, 365-367): the page switched to
next_page_id(cfg) ==
    LET pages == PageKeys(cfg)
        idx == PageIndex(cfg, cfg.current_page_id) - 1
    IN pages[((idx + 1) % Len(pages)) + 1]
prev_page_id(cfg) ==
    LET pages == PageKeys(cfg)
        idx == PageIndex(cfg, cfg.current_page_id) - 1
    IN pages[((idx - 1) % Len(pages)) + 1]

\* ------------------------------------------------------------- inputs
\* page ids: "default" and the uuid4 strings create_page draws
AllPageIds == <<"default", "p1", "p2", "p3">>
PageIds == {AllPageIds[i] : i \in 1 .. MaxPages}
AskedPageIds == PageIds \cup {"ghost"}
Titles == {"Work"}
PageUpdateRequests ==
    { [title |-> "Work", bg_color |-> <<10, 20, 30>>, text_color |-> NoColor] }

\* --------------------------------------------------- controller operations
\* each action is one whole handler; the request thread runs them one at a time

\* DeckController.start
Start ==
    /\ ~connected
    /\ \/ /\ UNCHANGED <<connected, device_info, tiles, strip>>
          /\ lastOp' = Done("start", <<>>, "no_device", 0)
       \/ \E t \in DeckTypes :
            LET info == [type |-> t, key_count |-> KeyCount] IN
            \E o \in render_current_page(config, TRUE, info, AllBlank, NoStrip) :
              /\ connected' = TRUE
              /\ device_info' = info
              /\ tiles' = o.tiles
              /\ strip' = o.strip
              /\ lastOp' = Done("start", <<>>, Status(o.raised), 0)
    /\ UNCHANGED <<config, disk>>

\* DeckController.stop
Stop ==
    /\ connected
    /\ connected' = FALSE
    /\ tiles' = AllBlank
    /\ strip' = NoStrip
    /\ lastOp' = Done("stop", <<>>, "ok", 0)
    /\ UNCHANGED <<config, disk, device_info>>

\* a switch_page that lacks the `page_id in pages` condition
switch_page_unchecked(op, page_id) ==
    /\ config' = [config EXCEPT !.current_page_id = page_id]
    /\ disk' = SavedDoc(config')
    /\ \E o \in render_current_page(config', connected, device_info, tiles, strip) :
         /\ tiles' = o.tiles
         /\ strip' = o.strip
         /\ lastOp' = Done(op, <<page_id>>, Status(o.raised), 1)
    /\ UNCHANGED <<connected, device_info>>

\* DeckController.switch_page
switch_page(op, page_id) ==
    IF HasPage(config, page_id)
    THEN /\ config' = [config EXCEPT !.current_page_id = page_id]
         /\ disk' = SavedDoc(config')
         /\ \E o \in render_current_page(config', connected, device_info, tiles, strip) :
              /\ tiles' = o.tiles
              /\ strip' = o.strip
              /\ lastOp' = Done(op, <<page_id>>, Status(o.raised), 1)
         /\ UNCHANGED <<connected, device_info>>
    ELSE /\ lastOp' = Done(op, <<page_id>>, "ok", 0)
         /\ UNCHANGED <<config, disk, connected, device_info, tiles, strip>>

SwitchPage(page_id) == switch_page("switch_page", page_id)

\* DeckController.next_page
NextPage ==
    IF HasCurrentPage(config)
    THEN switch_page("next_page", next_page_id(config))
    ELSE /\ lastOp' = Done("next_page", <<>>, "ok", 0)
         /\ UNCHANGED <<config, disk, connected, device_info, tiles, strip>>

\* DeckController.prev_page
PrevPage ==
    IF HasCurrentPage(config)
    THEN switch_page("prev_page", prev_page_id(config))
    ELSE /\ lastOp' = Done("prev_page", <<>>, "ok", 0)
         /\ UNCHANGED <<config, disk, connected, device_info, tiles, strip>>

\* DeckController.reload_config
Reload ==
    /\ config' = load_config(disk)
    /\ \E o \in render_current_page(config', connected, device_info, tiles, strip) :
         /\ tiles' = o.tiles
         /\ strip' = o.strip
         /\ lastOp' = Done("reload", <<>>, Status(o.raised), 0)
    /\ UNCHANGED <<disk, connected, device_info>>

\* a create_page that also makes the new page current
CreatePage_and_switch(page_id, title) ==
    /\ Len(config.pages) < MaxPages
    /\ ~HasPage(config, page_id)
    /\ config' = [pages |-> Append(config.pages, NewPage(page_id, title)),
                  current_page_id |-> page_id]
    /\ disk' = SavedDoc(config')
    /\ strip' = update_info_screen(config', connected, device_info, strip)
    /\ lastOp' = Done("create_page", <<page_id, title>>, "ok", 1)
    /\ UNCHANGED <<connected, device_info, tiles>>

\* DeckController.create_page; uuid4 gives an id no page has
CreatePage(page_id, title) ==
    /\ Len(config.pages) < MaxPages
    /\ ~HasPage(config, page_id)
    /\ config' = [config EXCEPT !.pages = Append(@, NewPage(page_id, title))]
    /\ disk' = SavedDoc(config')
    /\ strip' = update_info_screen(config', connected, device_info, strip)
    /\ lastOp' = Done("create_page", <<page_id, title>>, "ok", 1)
    /\ UNCHANGED <<connected, device_info, tiles>>

\* DeckController.delete_page
DeletePage(page_id) ==
    IF can_delete(config, page_id)
    THEN /\ config' = delete_from(config, page_id)
         /\ IF config.current_page_id = page_id
            THEN \E o \in render_current_page(config', connected, device_info, tiles, strip) :
                   /\ tiles' = o.tiles
                   /\ strip' = o.strip
                   /\ disk' = IF o.raised THEN disk ELSE SavedDoc(config')
                   /\ lastOp' = Done("delete_page", <<page_id>>, Status(o.raised),
                                     IF o.raised THEN 0 ELSE 1)
            ELSE /\ strip' = update_info_screen(config', connected, device_info, strip)
                 /\ disk' = SavedDoc(config')
                 /\ lastOp' = Done("delete_page", <<page_id>>, "ok", 1)
                 /\ UNCHANGED tiles
         /\ UNCHANGED <<connected, device_info>>
    ELSE /\ lastOp' = Done("delete_page", <<page_id>>, "ok", 0)
         /\ UNCHANGED <<config, disk, connected, device_info, tiles, strip>>

\* DeckController.update_page
UpdatePage(page_id, title) ==
    IF HasPage(config, page_id)
    THEN /\ config' = [config EXCEPT !.pages[PageIndex(config, page_id)].title = title]
         /\ disk' = SavedDoc(config')
         /\ strip' = IF config.current_page_id = page_id
                     THEN update_info_screen(config', connected, device_info, strip)
                     ELSE strip
         /\ lastOp' = Done("update_page", <<page_id, title>>, "ok", 1)
         /\ UNCHANGED <<connected, device_info, tiles>>
    ELSE /\ lastOp' = Done("update_page", <<page_id, title>>, "ok", 0)
         /\ UNCHANGED <<config, disk, connected, device_info, tiles, strip>>

\* PUT /pages/{page_id} (api.py update_page)
ApiUpdatePage(page_id, req) ==
    IF HasPage(config, page_id)
    THEN /\ config' = [config EXCEPT
                         !.pages[PageIndex(config, page_id)].title = req.title,
                         !.pages[PageIndex(config, page_id)].bg_color = req.bg_color,
                         !.pages[PageIndex(config, page_id)].text_color = req.text_color]
         /\ disk' = SavedDoc(config')
         /\ \E o \in render_current_page(config', connected, device_info, tiles, strip) :
              /\ tiles' = o.tiles
              /\ strip' = o.strip
              /\ lastOp' = Done("api_update_page", <<page_id, req>>, Status(o.raised), 1)
         /\ UNCHANGED <<connected, device_info>>
    ELSE /\ lastOp' = Done("api_update_page", <<page_id, req>>, "PageNotFound", 0)
         /\ UNCHANGED <<config, disk, connected, device_info, tiles, strip>>

\* an update_button that draws the button whether it is enabled or not
UpdateButton_always_drawn(key, req) ==
    IF ~connected
    THEN /\ lastOp' = Done("update_button", <<key, req>>, "NotConnected", 0)
         /\ UNCHANGED <<config, disk, connected, device_info, tiles, strip>>
    ELSE IF key >= device_info.key_count
    THEN /\ lastOp' = Done("update_button", <<key, req>>, "ButtonNotFound", 0)
         /\ UNCHANGED <<config, disk, connected, device_info, tiles, strip>>
    ELSE IF ~HasCurrentPage(config)
    THEN /\ lastOp' = Done("update_button", <<key, req>>, "ok", 0)
         /\ UNCHANGED <<config, disk, connected, device_info, tiles, strip>>
    ELSE LET page == get_current_page(config)
             button == ButtonOfRequest(key, req)
         IN /\ key \in DOMAIN page.buttons \/ ButtonCount(config) < MaxButtons
            /\ config' = SetButtons(config, page.key, Put(page.buttons, key, button))
            /\ disk' = SavedDoc(config')
            /\ tiles' = [tiles EXCEPT ![key] = ButtonTile(button, page)]
            /\ lastOp' = Done("update_button", <<key, req>>, "ok", 1)
            /\ UNCHANGED <<connected, device_info, strip>>

\* PUT /buttons/{key} (api.py update_button) and DeckController.update_button
UpdateButton(key, req) ==
    IF ~connected
    THEN /\ lastOp' = Done("update_button", <<key, req>>, "NotConnected", 0)
         /\ UNCHANGED <<config, disk, connected, device_info, tiles, strip>>
    ELSE IF key >= device_info.key_count
    THEN /\ lastOp' = Done("update_button", <<key, req>>, "ButtonNotFound", 0)
         /\ UNCHANGED <<config, disk, connected, device_info, tiles, strip>>
    ELSE IF ~HasCurrentPage(config)
    THEN /\ lastOp' = Done("update_button", <<key, req>>, "ok", 0)
         /\ UNCHANGED <<config, disk, connected, device_info, tiles, strip>>
    ELSE LET page == get_current_page(config)
             button == ButtonOfRequest(key, req)
         IN /\ key \in DOMAIN page.buttons \/ ButtonCount(config) < MaxButtons
            /\ config' = SetButtons(config, page.key, Put(page.buttons, key, button))
            /\ disk' = SavedDoc(config')
            /\ tiles' = [tiles EXCEPT ![key] = IF button.enabled
                                              THEN ButtonTile(button, page)
                                              ELSE BlankTile]
            /\ lastOp' = Done("update_button", <<key, req>>, "ok", 1)
            /\ UNCHANGED <<connected, device_info, strip>>

\* a clear_button that saves even when the slot holds nothing
ClearButton_always_saves(key) ==
    IF ~connected
    THEN /\ lastOp' = Done("clear_button", <<key>>, "NotConnected", 0)
         /\ UNCHANGED <<config, disk, connected, device_info, tiles, strip>>
    ELSE IF ~HasCurrentPage(config)
    THEN /\ lastOp' = Done("clear_button", <<key>>, "ok", 0)
         /\ UNCHANGED <<config, disk, connected, device_info, tiles, strip>>
    ELSE LET page == get_current_page(config)
         IN /\ config' = SetButtons(config, page.key, Del(page.buttons, key))
            /\ disk' = SavedDoc(config')
            /\ IF InRange(key, device_info)
               THEN /\ tiles' = [tiles EXCEPT ![key] = BlankTile]
                    /\ lastOp' = Done("clear_button", <<key>>, "ok", 1)
               ELSE /\ tiles' = tiles
                    /\ \E raised \in BOOLEAN :
                         lastOp' = Done("clear_button", <<key>>, Status(raised), 1)
            /\ UNCHANGED <<connected, device_info, strip>>

\* DELETE /buttons/{key} (api.py clear_button) and DeckController.clear_button;
\* blanking a key the device does not have raises in the vendor library or is dropped
ClearButton(key) ==
    IF ~connected
    THEN /\ lastOp' = Done("clear_button", <<key>>, "NotConnected", 0)
         /\ UNCHANGED <<config, disk, connected, device_info, tiles, strip>>
    ELSE IF ~HasCurrentPage(config) \/ key \notin DOMAIN get_current_page(config).buttons
    THEN /\ lastOp' = Done("clear_button", <<key>>, "ok", 0)
         /\ UNCHANGED <<config, disk, connected, device_info, tiles, strip>>
    ELSE LET page == get_current_page(config)
         IN /\ config' = SetButtons(config, page.key, Del(page.buttons, key))
            /\ disk' = SavedDoc(config')
            /\ IF InRange(key, device_info)
               THEN /\ tiles' = [tiles EXCEPT ![key] = BlankTile]
                    /\ lastOp' = Done("clear_button", <<key>>, "ok", 1)
               ELSE /\ tiles' = tiles
                    /\ \E raised \in BOOLEAN :
                         lastOp' = Done("clear_button", <<key>>, Status(raised), 1)
            /\ UNCHANGED <<connected, device_info, strip>>

\* POST /buttons/swap (api.py swap_buttons)
SwapButtons(page_id, key1, key2) ==
    IF ~HasPage(config, page_id)
    THEN /\ lastOp' = Done("swap_buttons", <<page_id, key1, key2>>, "PageNotFound", 0)
         /\ UNCHANGED <<config, disk, connected, device_info, tiles, strip>>
    ELSE LET page == PageAt(config, page_id) IN
         IF key1 \notin DOMAIN page.buttons /\ key2 \notin DOMAIN page.buttons
         THEN /\ lastOp' = Done("swap_buttons", <<page_id, key1, key2>>, "ok", 0)
              /\ UNCHANGED <<config, disk, connected, device_info, tiles, strip>>
         ELSE /\ config' = SetButtons(config, page_id, swap_map(page.buttons, key1, key2))
              /\ disk' = SavedDoc(config')
              /\ \E o \in render_current_page(config', connected, device_info, tiles, strip) :
                   /\ tiles' = o.tiles
                   /\ strip' = o.strip
                   /\ lastOp' = Done("swap_buttons", <<page_id, key1, key2>>,
                                     Status(o.raised), 1)
              /\ UNCHANGED <<connected, device_info>>

\* POST /buttons/move (api.py move_button)
MoveButton(source_page_id, source_key, target_page_id) ==
    LET asked == <<source_page_id, source_key, target_page_id>> IN
    IF ~HasPage(config, source_page_id) \/ ~HasPage(config, target_page_id)
    THEN /\ lastOp' = Done("move_button", asked, "PageNotFound", 0)
         /\ UNCHANGED <<config, disk, connected, device_info, tiles, strip>>
    ELSE LET source_page == PageAt(config, source_page_id)
             target_page == PageAt(config, target_page_id)
         IN
         IF source_key \notin DOMAIN source_page.buttons
         THEN /\ lastOp' = Done("move_button", asked, "ButtonNotFound", 0)
              /\ UNCHANGED <<config, disk, connected, device_info, tiles, strip>>
         ELSE LET target_key == first_empty_slot(target_page.buttons,
                                                 key_count_or_default(device_info))
              IN
              IF target_key = -1
              THEN /\ lastOp' = Done("move_button", asked, "TargetFull", 0)
                   /\ UNCHANGED <<config, disk, connected, device_info, tiles, strip>>
              ELSE    /\ target_key \in Slots
                      /\ config' = moved_config(config, source_page_id, source_key,
                                                 target_page_id, target_key)
                      /\ disk' = SavedDoc(config')
                      /\ \E o \in render_current_page(config', connected, device_info,
                                                      tiles, strip) :
                           /\ tiles' = o.tiles
                           /\ strip' = o.strip
                           /\ lastOp' = Done("move_button", asked, Status(o.raised), 1)
                      /\ UNCHANGED <<connected, device_info>>

\* ------------------------------------------------------------ documents
\* documents found on disk at construction
ButtonA(k) == ButtonOfRequest(k, [label |-> "A", icon |-> Null, action_type |-> "plugin",
                                  plugin_id |-> "cpu", bg_color |-> DefaultBg,
                                  text_color |-> DefaultText, font_size |-> 14,
                                  enabled |-> TRUE])
PageDoc(page_id, title, buttons) ==
    [key |-> page_id, id |-> page_id, title |-> title, buttons |-> buttons,
     bg_color |-> NoColor, text_color |-> NoColor]
OneButtonDocs(s, k) == [x \in {s} |-> ButtonToDict(ButtonA(k))]
TwoPageDocs == << PageDoc("default", "Home", OneButtonDocs("0", 0)),
                  PageDoc("p1", "Work", NoButtonDocs) >>

LegacyDoc == Doc("object", OneButtonDocs("0", 0), FALSE, <<>>, FALSE, Null)
GoodDoc == Doc("object", NoButtonDocs, TRUE, TwoPageDocs, TRUE, "p1")
NoCurrentDoc == Doc("object", NoButtonDocs, TRUE, TwoPageDocs, FALSE, Null)
DanglingDoc == Doc("object", NoButtonDocs, TRUE, TwoPageDocs, TRUE, "ghost")
\* a ButtonDoc stored under "1" whose own "key" says 0
OtherKeyDoc == Doc("object", NoButtonDocs, TRUE,
                   << PageDoc("default", "Home", OneButtonDocs("1", 0)) >>,
                   TRUE, "default")

InitDocs == {AbsentDoc, InvalidDoc, LegacyDoc, GoodDoc, NoCurrentDoc, DanglingDoc,
             OtherKeyDoc}

\* --------------------------------------------------------- specification
IdleXfer ==
    /\ jpeg_data = <<>>
    /\ page_number = 0
    /\ bytes_remaining = 0
    /\ reports = <<>>
    /\ xfer = "idle"

IdleThreads ==
    /\ apiPc = "idle"
    /\ apiReq = <<>>
    /\ hwPc = "idle"
    /\ hwReq = <<>>
    /\ render = [t \in Threads |-> AtRest]
    /\ lock = Null
    /\ wire = <<>>
    /\ events = <<>>
    /\ calls = <<>>

\* DeckController.__init__ on a StreamDeckManager that is not connected
InitCtl(watched) ==
    /\ watch = watched
    /\ disk \in InitDocs
    /\ config = load_config(disk)
    /\ connected = FALSE
    /\ device_info = NoInfo
    /\ tiles = AllBlank
    /\ strip = NoStrip
    /\ lastOp = Unwatched

Init == InitCtl({}) /\ IdleXfer /\ IdleThreads

\* a controller operation runs with no transfer and no second thread under way
Alone == UNCHANGED <<watch, xferVars, thrVars>>

Next ==
    \/ Start /\ Alone
    \/ Stop /\ Alone
    \/ \E page_id \in AskedPageIds : SwitchPage(page_id) /\ Alone
    \/ NextPage /\ Alone
    \/ PrevPage /\ Alone
    \/ Reload /\ Alone
    \/ \E page_id \in PageIds, title \in Titles : CreatePage(page_id, title) /\ Alone
    \/ \E page_id \in AskedPageIds : DeletePage(page_id) /\ Alone
    \/ \E page_id \in AskedPageIds, title \in Titles : UpdatePage(page_id, title) /\ Alone
    \/ \E page_id \in AskedPageIds, req \in PageUpdateRequests :
         ApiUpdatePage(page_id, req) /\ Alone
    \/ \E key \in Slots, req \in ButtonRequests : UpdateButton(key, req) /\ Alone
    \/ \E key \in Slots : ClearButton(key) /\ Alone
    \/ \E page_id \in AskedPageIds, key1 \in Slots, key2 \in Slots :
         SwapButtons(page_id, key1, key2) /\ Alone
    \/ \E source \in AskedPageIds, key \in Slots, target \in AskedPageIds :
         MoveButton(source, key, target) /\ Alone

Spec == Init /\ [][Next]_vars

\* ------------------------------------------------------------- properties

\* C1: after any sequence of controller operations applied to a loaded
\* config, current_page_id is a key of pages.
C1_CurrentPageIsKey == HasCurrentPage(config)

\* ---- ConfigManager.load_config over a family of documents
PageLists ==
    { <<>>,
      << PageDoc("default", "Home", OneButtonDocs("0", 0)) >>,
      << PageDoc("p1", "Work", OneButtonDocs("1", 0)) >>,
      << PageDoc("p1", "Work", NoButtonDocs) >>,
      TwoPageDocs,
      << PageDoc("p1", "Work", NoButtonDocs), PageDoc("default", "Home", NoButtonDocs) >> }
LoadDocs ==
    {AbsentDoc, InvalidDoc}
    \cup { Doc("object", numeric, TRUE, pages, FALSE, Null) :
              numeric \in {NoButtonDocs, OneButtonDocs("0", 0)}, pages \in PageLists }
    \cup { Doc("object", numeric, TRUE, pages, TRUE, current) :
              numeric \in {NoButtonDocs, OneButtonDocs("0", 0)}, pages \in PageLists,
              current \in {"default", "p1", "ghost"} }
    \cup { Doc("object", numeric, FALSE, <<>>, FALSE, Null) :
              numeric \in {NoButtonDocs, OneButtonDocs("0", 0), OneButtonDocs("1", 0)} }
    \cup { Doc("object", NoButtonDocs, FALSE, <<>>, TRUE, current) :
              current \in {"default", "ghost"} }

\* the controller was built with no file present; the file then holds any of
\* LoadDocs and reload_config reads it
InitLoad ==
    /\ watch = {"reload"}
    /\ disk \in LoadDocs
    /\ config = default_config
    /\ connected = FALSE
    /\ device_info = NoInfo
    /\ tiles = AllBlank
    /\ strip = NoStrip
    /\ lastOp = Unwatched
    /\ IdleXfer
    /\ IdleThreads

NextLoad == Reload /\ Alone

SpecLoad == InitLoad /\ [][NextLoad]_vars

\* a document in the paged format that load_config reads as such
IsPagedDoc(d) ==
    /\ d.kind = "object"
    /\ d.has_pages
    /\ d.pages # <<>>
    /\ DOMAIN d.numeric = {}
DocHasPage(d, page_id) == \E i \in 1 .. Len(d.pages) : d.pages[i].key = page_id

\* C2: loading a paged document whose current_page_id is missing or names no
\* page of it yields a config whose current_page_id is the first stored page.
C2_LoadRepairsCurrentPage ==
    (/\ lastOp.op = "reload"
     /\ IsPagedDoc(disk)
     /\ ~disk.has_current \/ ~DocHasPage(disk, disk.current_page_id))
    => config.current_page_id = disk.pages[1].key

\* ---- page deletion, with delete_page's outcome recorded
InitPages == InitCtl({"delete_page"}) /\ IdleXfer /\ IdleThreads

SpecPages == InitPages /\ [][Next]_vars

\* C3: there is always at least one page, and delete_page on a config with
\* exactly one page leaves pages, current_page_id and the saved document as
\* they were.
C3_AtLeastOnePage ==
    /\ [](Len(config.pages) >= 1)
    /\ [][\A page_id \in AskedPageIds :
            (DeletePage(page_id) /\ Len(config.pages) = 1)
            => (config' = config /\ disk' = disk /\ lastOp'.saves = 0)]_vars

\* delete_page was asked to delete the only page, which is still there
C3_LastPageKept ==
    /\ lastOp.op = "delete_page"
    /\ Len(config.pages) = 1
    /\ lastOp.args = <<config.pages[1].key>>
    /\ lastOp.saves = 0

\* C4: swapping the same two slots of a page twice restores the page's button
\* map, each button's key field included.
C4_SwapTwiceRestores ==
    \A i \in 1 .. Len(config.pages) : \A key1 \in Slots, key2 \in Slots :
        LET buttons == config.pages[i].buttons
        IN swap_map(swap_map(buttons, key1, key2), key1, key2) = buttons

\* ---- moves between pages, with move_button's outcome recorded
\* the operations that build the pages a move runs on, and the move
NextMove ==
    \/ Start /\ Alone
    \/ Stop /\ Alone
    \/ \E page_id \in AskedPageIds : SwitchPage(page_id) /\ Alone
    \/ \E page_id \in PageIds, title \in Titles : CreatePage(page_id, title) /\ Alone
    \/ \E key \in Slots, req \in ButtonRequests : UpdateButton(key, req) /\ Alone
    \/ \E source \in AskedPageIds, key \in Slots, target \in AskedPageIds :
         MoveButton(source, key, target) /\ Alone

InitMove == InitCtl({"move_button"}) /\ IdleXfer /\ IdleThreads

SpecMove == InitMove /\ [][NextMove]_vars

ButtonsOf(cfg, page_id) == PageAt(cfg, page_id).buttons
IsFull(buttons, key_count) == \A j \in 0 .. (key_count - 1) : j \in DOMAIN buttons

\* C6: move_button answers "Button not found" (404) when the source slot is
\* empty and "Target page is full" (400) when the target page has no free slot
\* below the key count; either way config and the saved document are untouched.
\* The key count is the one move_button reads: the device's, or 32 when no
\* device was read yet. An empty source slot is reported before a full target.
C6_MoveRejected ==
    [][\A source \in PageIds, target \in PageIds : \A key \in Slots :
         (/\ MoveButton(source, key, target)
          /\ HasPage(config, source)
          /\ HasPage(config, target))
         => LET empty == key \notin DOMAIN ButtonsOf(config, source)
                full == IsFull(ButtonsOf(config, target),
                               key_count_or_default(device_info))
            IN /\ empty => lastOp'.status = "ButtonNotFound"
               /\ (~empty /\ full) => lastOp'.status = "TargetFull"
               /\ (empty \/ full) =>
                    (config' = config /\ disk' = disk /\ lastOp'.saves = 0)
               /\ lastOp'.status \in {"ButtonNotFound", "TargetFull"} =>
                    (empty \/ full)]_vars

\* a move from one page to another, full, page was refused
C6_TargetFullSeen ==
    /\ lastOp.op = "move_button"
    /\ lastOp.status = "TargetFull"
    /\ lastOp.args[1] # lastOp.args[3]
    /\ lastOp.args[2] \in DOMAIN ButtonsOf(config, lastOp.args[1])
    /\ IsFull(ButtonsOf(config, lastOp.args[3]), device_info.key_count)

\* C7: a move that is not rejected takes the button out of the source slot and
\* puts it, key set to the new slot, at the lowest free index below the key
\* count on the target page; nothing else changes and no button is lost or
\* duplicated. This includes a move within one page. The key count is the one
\* move_button reads: the device's, or 32 when no device was read yet.
C7_MovePlacesAtLowestFree ==
    [][\A source \in PageIds, target \in PageIds : \A key \in Slots :
         (/\ MoveButton(source, key, target)
          /\ lastOp'.status \in {"ok", "error"}
          /\ lastOp'.saves = 1)
         => LET button == ButtonsOf(config, source)[key]
                occupied == DOMAIN ButtonsOf(config, target)
                lowest == CHOOSE j \in 0 .. (key_count_or_default(device_info) - 1) :
                             j \notin occupied /\ \A i \in 0 .. (j - 1) : i \in occupied
                other(p, j) == <<p, j>> \notin {<<source, key>>, <<target, lowest>>}
            IN /\ key \in DOMAIN ButtonsOf(config, source)
               /\ \E j \in 0 .. (key_count_or_default(device_info) - 1) : j \notin occupied
               /\ PageKeys(config') = PageKeys(config)
               /\ config'.current_page_id = config.current_page_id
               /\ key \notin DOMAIN ButtonsOf(config', source)
               /\ lowest \in DOMAIN ButtonsOf(config', target)
               /\ ButtonsOf(config', target)[lowest] = [button EXCEPT !.key = lowest]
               /\ \A i \in 1 .. Len(config.pages) :
                    LET p == config.pages[i].key
                        before == config.pages[i].buttons
                        after == config'.pages[i].buttons
                    IN /\ [config'.pages[i] EXCEPT !.buttons = NoButtons]
                            = [config.pages[i] EXCEPT !.buttons = NoButtons]
                       /\ \A j \in (DOMAIN before) \cup (DOMAIN after) :
                            other(p, j) =>
                              (j \in DOMAIN before /\ j \in DOMAIN after
                               /\ after[j] = before[j])
               /\ ButtonCount(config') = ButtonCount(config)
               /\ disk' = SavedDoc(config')]_vars

\* a button was moved within its page: from slot 0 to slot 1, the lowest free
C7_MovedWithinPage ==
    /\ lastOp.op = "move_button"
    /\ lastOp.status = "ok"
    /\ lastOp.args[1] = lastOp.args[3]
    /\ lastOp.args[2] = 0
    /\ DOMAIN ButtonsOf(config, lastOp.args[1]) = {1}
    /\ ButtonsOf(config, lastOp.args[1])[1].key = 1

\* ------------------------------------- DeckController._send_neo_image
\* (controller.py:264-266)
IMAGE_REPORT_LENGTH == 1024
HEADER_LENGTH == 8
PAYLOAD_LENGTH == IMAGE_REPORT_LENGTH - HEADER_LENGTH

\* longest JPEG stream sent, and the streams: byte i of stream `seed`
MaxBytes == 2033
Seeds == {0, 1}
ByteAt(seed, i) == (37 * i + 101 * seed) % 256
\* a stream long enough for a chunk index that needs its second byte
LongImage == [i \in 1 .. (256 * PAYLOAD_LENGTH + 1) |-> ByteAt(0, i)]
Images ==
    { [i \in 1 .. n |-> ByteAt(seed, i)] : n \in 0 .. MaxBytes, seed \in Seeds }
    \cup {LongImage}

\* a slice data[from:from+length] as Python cuts it
Slice(data, from, length) ==
    LET last == IF from + length < Len(data) THEN from + length ELSE Len(data)
    IN [i \in 1 .. (IF last > from THEN last - from ELSE 0) |-> data[from + i]]

this_length_of(remaining) ==
    IF remaining < PAYLOAD_LENGTH THEN remaining ELSE PAYLOAD_LENGTH

\* a last-chunk test that looks at the chunk being short
is_last_when_short(length, remaining) == IF length < PAYLOAD_LENGTH THEN 1 ELSE 0

is_last_of(length, remaining) == IF length = remaining THEN 1 ELSE 0

\* a header that writes the two length bytes high byte first
header_high_first(is_last, length, page) ==
    << 2, 11, 0, is_last,
       (length \div 256) % 256, length % 256,
       page % 256, (page \div 256) % 256 >>

header_of(is_last, length, page) ==
    << 2, 11, 0, is_last,
       length % 256, (length \div 256) % 256,
       page % 256, (page \div 256) % 256 >>

\* an offset counted in whole reports instead of payloads
bytes_sent_in_reports(page) == page * IMAGE_REPORT_LENGTH

bytes_sent_of(page) == page * PAYLOAD_LENGTH

\* the report built by one pass of the loop
report_of(data, page, remaining) ==
    LET length == this_length_of(remaining)
        payload == Slice(data, bytes_sent_of(page), length)
        padding == [i \in 1 .. (PAYLOAD_LENGTH - Len(payload)) |-> 0]
    IN header_of(is_last_of(length, remaining), length, page) \o payload \o padding

\* one pass of the loop whose device write succeeds
SendReport ==
    /\ xfer = "sending"
    /\ bytes_remaining > 0
    /\ reports' = Append(reports, report_of(jpeg_data, page_number, bytes_remaining))
    /\ bytes_remaining' = bytes_remaining - this_length_of(bytes_remaining)
    /\ page_number' = page_number + 1
    /\ UNCHANGED <<jpeg_data, xfer>>

\* an except clause that logs the error and lets the loop go on
write_error_logged_only(remaining, page) ==
    [xfer |-> "sending",
     bytes_remaining |-> remaining - this_length_of(remaining),
     page_number |-> page + 1]

\* the except clause: the error is logged and raised again, which ends the
\* call with the counters as they were
write_error(remaining, page) ==
    [xfer |-> "failed", bytes_remaining |-> remaining, page_number |-> page]

\* one pass of the loop whose device write raises
WriteFails ==
    /\ xfer = "sending"
    /\ bytes_remaining > 0
    /\ LET after == write_error(bytes_remaining, page_number)
       IN /\ xfer' = after.xfer
          /\ bytes_remaining' = after.bytes_remaining
          /\ page_number' = after.page_number
    /\ UNCHANGED <<jpeg_data, reports>>

\* the loop ends: nothing remains
Finish ==
    /\ xfer = "sending"
    /\ bytes_remaining = 0
    /\ xfer' = "done"
    /\ UNCHANGED <<jpeg_data, page_number, bytes_remaining, reports>>

\* _send_neo_image called with one of Images, on a controller at rest
InitChunk ==
    /\ InitCtl({})
    /\ disk = AbsentDoc
    /\ IdleThreads
    /\ jpeg_data \in Images
    /\ page_number = 0
    /\ bytes_remaining = Len(jpeg_data)
    /\ reports = <<>>
    /\ xfer = "sending"

\* a transfer runs with the controller's other state left alone
Sending == UNCHANGED <<ctlVars, watch, thrVars>>

NextChunk ==
    \/ SendReport /\ Sending
    \/ WriteFails /\ Sending
    \/ Finish /\ Sending

SpecChunk == InitChunk /\ [][NextChunk]_vars

\* what a receiver reads out of a report's header
FlagOf(report) == report[4]
LengthOf(report) == report[5] + 256 * report[6]
IndexOf(report) == report[7] + 256 * report[8]
ChunksNeeded(n) == (n + PAYLOAD_LENGTH - 1) \div PAYLOAD_LENGTH

\* C8: a stream of n >= 1 bytes goes out in exactly ceil(n / 1016) reports,
\* the last-chunk flag being 1 on the final report and 0 on every other one
\* (1016 bytes: one report; 1017 bytes: two).
C8_ChunkCount ==
    LET n == Len(jpeg_data) IN
    /\ Len(reports) <= ChunksNeeded(n)
    /\ xfer = "done" => Len(reports) = ChunksNeeded(n)
    /\ \A k \in 1 .. Len(reports) :
         FlagOf(reports[k]) = (IF k = ChunksNeeded(n) THEN 1 ELSE 0)
    /\ (xfer = "done" /\ n = 1016) => Len(reports) = 1
    /\ (xfer = "done" /\ n = 1017) => Len(reports) = 2

\* a stream of exactly two full payloads went out in two reports
C8_TwoFullChunksSent ==
    /\ xfer = "done"
    /\ Len(jpeg_data) = 2 * PAYLOAD_LENGTH
    /\ Len(reports) = 2
    /\ FlagOf(reports[1]) = 0
    /\ FlagOf(reports[2]) = 1

\* C9: the k-th report (k from 0) starts 0x02, 0x0B, 0x00, flag, carries in
\* bytes 4-5 the payload length min(1016, bytes left) and in bytes 6-7 the
\* chunk index k, both as little-endian 16-bit numbers.
C9_Header ==
    \A k \in 0 .. (Len(reports) - 1) :
        LET report == reports[k + 1]
            left == Len(jpeg_data) - k * 1016
        IN /\ report[1] = 2
           /\ report[2] = 11
           /\ report[3] = 0
           /\ report[4] \in {0, 1}
           /\ \A i \in 5 .. 8 : report[i] \in 0 .. 255
           /\ LengthOf(report) = (IF left < 1016 THEN left ELSE 1016)
           /\ IndexOf(report) = k

\* a full first report (length 0x03F8) followed by a second one, index 1
C9_SecondHeaderSeen ==
    /\ Len(reports) = 2
    /\ reports[1][5] = 248
    /\ reports[1][6] = 3
    /\ reports[2][7] = 1
    /\ reports[2][8] = 0
    /\ LengthOf(reports[2]) = 7

RECURSIVE Reassembled(_)
\* the payload bytes of the reports, in order, as their headers delimit them
Reassembled(rs) ==
    IF rs = <<>> THEN <<>>
    ELSE Reassembled(SubSeq(rs, 1, Len(rs) - 1))
         \o SubSeq(rs[Len(rs)], HEADER_LENGTH + 1, HEADER_LENGTH + LengthOf(rs[Len(rs)]))

\* C10: every report is exactly 1024 bytes, 8 of header, then the payload,
\* then zeros; the payloads of the reports sent, in order, are the bytes of
\* the stream sent so far, and the whole stream once the transfer returns.
C10_ReportsCarryStream ==
    /\ \A k \in 1 .. Len(reports) :
         /\ Len(reports[k]) = 1024
         /\ \A i \in (8 + LengthOf(reports[k]) + 1) .. 1024 : reports[k][i] = 0
    /\ Reassembled(reports) = SubSeq(jpeg_data, 1, Len(jpeg_data) - bytes_remaining)
    /\ xfer = "done" => Reassembled(reports) = jpeg_data

\* a stream that ends one byte into its third report was sent whole
C10_ThreeReportsSent ==
    /\ xfer = "done"
    /\ Len(jpeg_data) = 2 * PAYLOAD_LENGTH + 1
    /\ Len(reports) = 3
    /\ Reassembled(reports) = jpeg_data

\* ------------------------------------- update_info_screen, call by call
\* JPEG streams the info screen is sent: none, one byte, and the lengths
\* around one and two full payloads
StripLengths == {0, 1, PAYLOAD_LENGTH, PAYLOAD_LENGTH + 1,
                 2 * PAYLOAD_LENGTH, 2 * PAYLOAD_LENGTH + 1}
StripImages ==
    { [i \in 1 .. n |-> ByteAt(seed, i)] : n \in StripLengths, seed \in Seeds }

\* update_info_screen on a connected Neo with a current page, up to the
\* first line of _send_neo_image; the call before it has returned
StripBegin ==
    /\ connected
    /\ device_info.type = "Stream Deck Neo"
    /\ HasCurrentPage(config)
    /\ xfer = "idle" \/ (xfer \in {"done", "failed"} /\ lastOp # Unwatched)
    /\ jpeg_data' \in StripImages
    /\ page_number' = 0
    /\ bytes_remaining' = Len(jpeg_data')
    /\ reports' = <<>>
    /\ xfer' = "sending"
    /\ lastOp' = Unwatched
    /\ UNCHANGED <<config, disk, connected, device_info, tiles, strip, watch, thrVars>>

\* update_info_screen after _send_neo_image: "updated successfully" is
\* logged, or the except clause logs the error; either way the method
\* returns None. After a failed transfer the screen shows the old picture
\* or the new one.
StripReturn ==
    /\ xfer \in {"done", "failed"}
    /\ lastOp = Unwatched
    /\ strip' \in IF xfer = "done"
                  THEN {update_info_screen(config, connected, device_info, strip)}
                  ELSE {strip, update_info_screen(config, connected, device_info, strip)}
    /\ lastOp' = Done("update_info_screen", <<>>, "ok", 0)
    /\ UNCHANGED <<config, disk, connected, device_info, tiles, watch, xferVars, thrVars>>

\* the controller after start() on a connected Neo
InitStrip ==
    /\ watch = {"update_info_screen"}
    /\ disk \in InitDocs
    /\ config = load_config(disk)
    /\ connected = TRUE
    /\ device_info = [type |-> "Stream Deck Neo", key_count |-> KeyCount]
    /\ \E o \in render_current_page(config, TRUE, device_info, AllBlank, NoStrip) :
         /\ tiles = o.tiles
         /\ strip = o.strip
    /\ lastOp = Unwatched
    /\ IdleXfer
    /\ IdleThreads

NextStrip ==
    \/ StripBegin
    \/ SendReport /\ Sending
    \/ WriteFails /\ Sending
    \/ Finish /\ Sending
    \/ StripReturn

SpecStrip == InitStrip /\ [][NextStrip]_vars

\* C11: when the write of a frame fails the transfer ends there: the step
\* that writes no frame leaves the call failed with its counters untouched,
\* nothing is written while the call stays failed, and the only way on is a
\* new transfer that starts again at chunk 0 of its stream; frames go out
\* in chunk order.
C11_FailedTransferAborted ==
    [][ /\ (/\ xfer = "sending"
            /\ bytes_remaining > 0
            /\ reports' = reports
            /\ xferVars' # xferVars)
           => (/\ xfer' = "failed"
               /\ page_number' = page_number
               /\ bytes_remaining' = bytes_remaining
               /\ jpeg_data' = jpeg_data)
        /\ xfer = "failed"
           => \/ xferVars' = xferVars
              \/ /\ xfer' = "sending"
                 /\ reports' = <<>>
                 /\ page_number' = 0
                 /\ bytes_remaining' = Len(jpeg_data')
        /\ reports' # reports /\ reports' # <<>>
           => /\ Len(reports') = Len(reports) + 1
              /\ IndexOf(reports'[Len(reports')]) = Len(reports)
      ]_vars

\* a transfer of three chunks failed on its second write
C11_FailedMidway ==
    /\ xfer = "failed"
    /\ ChunksNeeded(Len(jpeg_data)) = 3
    /\ Len(reports) = 1
    /\ page_number = 1

\* C12: a strip update whose transfer failed ends in an error its caller
\* sees, and leaves config and the saved document as they were.
C12_FailureSurfaced ==
    [][ (xfer = "failed" /\ lastOp' # lastOp /\ xfer' = "failed")
        => (/\ lastOp'.status = "error"
            /\ config' = config
            /\ disk' = disk) ]_vars

\* -------------------------------- swap_buttons against the key callback
\* The swap endpoint runs on the server's event-loop thread; the vendor
\* library calls StreamDeckManager._handle_key_press, and through it
\* DeckController.on_key_press, on its own reader thread. Neither takes a
\* lock around config or save_config, so the statements of the two interleave.
\* save_config is taken as one step that writes config as it then is.

\* api.py swap_buttons, lines 308-319: look the page and both buttons up
ApiSwapBegin(page_id, key1, key2) ==
    /\ apiPc = "idle"
    /\ HasPage(config, page_id)
    /\ LET buttons == PageAt(config, page_id).buttons
       IN /\ key1 \in DOMAIN buttons \/ key2 \in DOMAIN buttons
          /\ apiReq' = [page_id |-> page_id, key1 |-> key1, key2 |-> key2,
                        has1 |-> key1 \in DOMAIN buttons,
                        has2 |-> key2 \in DOMAIN buttons,
                        b1 |-> IF key1 \in DOMAIN buttons THEN buttons[key1]
                               ELSE DefaultButton(key1),
                        b2 |-> IF key2 \in DOMAIN buttons THEN buttons[key2]
                               ELSE DefaultButton(key2),
                        before |-> buttons]
    /\ apiPc' = "del1"
    /\ UNCHANGED <<config, disk, tiles, strip, hwPc, hwReq>>

\* lines 322-323: del page.buttons[key1]
ApiSwapDel1 ==
    /\ apiPc = "del1"
    /\ config' = SetButtons(config, apiReq.page_id,
                            Del(PageAt(config, apiReq.page_id).buttons, apiReq.key1))
    /\ apiPc' = "del2"
    /\ UNCHANGED <<disk, tiles, strip, apiReq, hwPc, hwReq>>

\* lines 324-325: del page.buttons[key2]
ApiSwapDel2 ==
    /\ apiPc = "del2"
    /\ config' = SetButtons(config, apiReq.page_id,
                            Del(PageAt(config, apiReq.page_id).buttons, apiReq.key2))
    /\ apiPc' = "put1"
    /\ UNCHANGED <<disk, tiles, strip, apiReq, hwPc, hwReq>>

\* lines 328-330: b1 goes to key2
ApiSwapPut1 ==
    /\ apiPc = "put1"
    /\ config' = IF apiReq.has1
                 THEN SetButtons(config, apiReq.page_id,
                                 Put(PageAt(config, apiReq.page_id).buttons, apiReq.key2,
                                     [apiReq.b1 EXCEPT !.key = apiReq.key2]))
                 ELSE config
    /\ apiPc' = "put2"
    /\ UNCHANGED <<disk, tiles, strip, apiReq, hwPc, hwReq>>

\* lines 332-334: b2 goes to key1
ApiSwapPut2 ==
    /\ apiPc = "put2"
    /\ config' = IF apiReq.has2
                 THEN SetButtons(config, apiReq.page_id,
                                 Put(PageAt(config, apiReq.page_id).buttons, apiReq.key1,
                                     [apiReq.b2 EXCEPT !.key = apiReq.key1]))
                 ELSE config
    /\ apiPc' = "save"
    /\ UNCHANGED <<disk, tiles, strip, apiReq, hwPc, hwReq>>

\* line 336: save_config(config)
ApiSwapSave ==
    /\ apiPc = "save"
    /\ disk' = SavedDoc(config)
    /\ apiPc' = "render"
    /\ UNCHANGED <<config, tiles, strip, apiReq, hwPc, hwReq>>

\* lines 337-338: render_current_page() and the response
ApiSwapRender ==
    /\ apiPc = "render"
    /\ \E o \in render_current_page(config, connected, device_info, tiles, strip) :
         /\ tiles' = o.tiles
         /\ strip' = o.strip
    /\ apiPc' = "idle"
    /\ apiReq' = <<>>
    /\ UNCHANGED <<config, disk, hwPc, hwReq>>

\* on_key_press(8) / on_key_press(9) up to switch_page's assignment
\* (controller.py:311-317, 349-375)
HwKeyPress(key) ==
    /\ hwPc = "idle"
    /\ connected
    /\ HasCurrentPage(config)
    /\ config' = [config EXCEPT !.current_page_id =
                     IF key = 8 THEN prev_page_id(config) ELSE next_page_id(config)]
    /\ hwPc' = "save"
    /\ hwReq' = <<key>>
    /\ UNCHANGED <<disk, tiles, strip, apiPc, apiReq>>

\* switch_page, controller.py:375: save_config(self.config)
HwSave ==
    /\ hwPc = "save"
    /\ disk' = SavedDoc(config)
    /\ hwPc' = "render"
    /\ UNCHANGED <<config, tiles, strip, apiPc, apiReq, hwReq>>

\* switch_page, controller.py:376: render_current_page()
HwRender ==
    /\ hwPc = "render"
    /\ \E o \in render_current_page(config, connected, device_info, tiles, strip) :
         /\ tiles' = o.tiles
         /\ strip' = o.strip
    /\ hwPc' = "idle"
    /\ hwReq' = <<>>
    /\ UNCHANGED <<config, disk, apiPc, apiReq>>

\* the controller after start() on a connected device
InitConc ==
    /\ watch = {}
    /\ disk \in InitDocs
    /\ config = load_config(disk)
    /\ connected = TRUE
    /\ device_info = [type |-> "Stream Deck Neo", key_count |-> KeyCount]
    /\ \E o \in render_current_page(config, TRUE, device_info, AllBlank, NoStrip) :
         /\ tiles = o.tiles
         /\ strip = o.strip
    /\ lastOp = Unwatched
    /\ IdleXfer
    /\ IdleThreads

\* what no step of the two threads touches
Steady == UNCHANGED <<connected, device_info, lastOp, watch, xferVars, render, lock, wire,
                      events, calls>>

NextConc ==
    \/ \E page_id \in PageIds, key1 \in Slots, key2 \in Slots :
         ApiSwapBegin(page_id, key1, key2) /\ Steady
    \/ ApiSwapDel1 /\ Steady
    \/ ApiSwapDel2 /\ Steady
    \/ ApiSwapPut1 /\ Steady
    \/ ApiSwapPut2 /\ Steady
    \/ ApiSwapSave /\ Steady
    \/ ApiSwapRender /\ Steady
    \/ \E key \in {8, 9} : HwKeyPress(key) /\ Steady
    \/ HwSave /\ Steady
    \/ HwRender /\ Steady

SpecConc == InitConc /\ [][NextConc]_vars

\* C5: while a swap is under way and after it, the saved document holds for
\* the swapped page either the button map from before the swap or the fully
\* swapped one, never a map with only part of the swap applied.
C5_SavedMapNeverHalfSwapped ==
    (/\ apiPc # "idle"
     /\ disk.kind = "object"
     /\ disk.has_pages
     /\ DocHasPage(disk, apiReq.page_id))
    => LET i == CHOOSE j \in 1 .. Len(disk.pages) : disk.pages[j].key = apiReq.page_id
           saved == PageFromDict(disk.pages[i]).buttons
       IN \/ saved = apiReq.before
          \/ saved = swap_map(apiReq.before, apiReq.key1, apiReq.key2)

\* config holds nothing the saved document does not
Persisted == config = load_config(disk)
\* the keys and the info screen show a render of config
Displayed ==
    \E o \in render_current_page(config, connected, device_info, tiles, strip) :
        o.tiles = tiles /\ o.strip = strip

\* C14: mutate, persist and re-render of one operation are one critical
\* section: whenever a thread starts an operation of its own and reads
\* config, every button map and current_page_id it finds is the persisted
\* one and the device shows a render of it.
C14_ReaderSeesPersistedState ==
    [][ /\ (hwPc = "idle" /\ hwPc' # "idle") => (Persisted /\ Displayed)
        /\ (apiPc = "idle" /\ apiPc' # "idle") => (Persisted /\ Displayed)
      ]_vars

\* ------------------------------------------- device writes of two renders
\* render_current_page write by write, run by the request thread (an
\* endpoint's render) and by the reader thread (a key callback's
\* switch_page). clear_button and set_button_image write inside
\* `with self._lock`; _send_neo_image and set_brightness write with no lock.

\* reports the info screen's JPEG goes out in
StripFrames == 2
\* device writes recorded in wire
MaxWrites == 16

RECURSIVE Ascending(_)
Ascending(S) == IF S = {} THEN <<>> ELSE <<Min(S)>> \o Ascending(S \ {Min(S)})

\* the keys the loop over page.buttons draws
DrawKeys(cfg, info) ==
    LET page == get_current_page(cfg)
    IN Ascending({k \in DOMAIN page.buttons :
                    page.buttons[k].enabled /\ InRange(k, info)})

\* marks a render leaves in wire: two for each locked write, one per frame
WritesOfRender(cfg, info) ==
    2 * info.key_count + StripFrames + 2 * Len(DrawKeys(cfg, info))

\* render_current_page up to clear_all_buttons
RenderBegin(t) ==
    /\ render[t].pc = "idle"
    /\ connected
    /\ HasCurrentPage(config)
    /\ Len(wire) + WritesOfRender(config, device_info) <= MaxWrites
    /\ render' = [render EXCEPT ![t] = [pc |-> "clear", i |-> 0]]
    /\ UNCHANGED <<tiles, strip, lock, wire>>

\* the key the thread's next locked write goes to
KeyOf(t) ==
    IF render[t].pc = "clear" THEN render[t].i
    ELSE DrawKeys(config, device_info)[render[t].i]

\* clear_button / set_button_image: `with self._lock:` entered, the write
\* to the key begins
LockTake(t) ==
    /\ render[t].pc \in {"clear", "draw"}
    /\ lock = Null
    /\ lock' = t
    /\ wire' = Append(wire, [by |-> t, what |-> "key_begin", arg |-> KeyOf(t)])
    /\ UNCHANGED <<tiles, strip, render>>

\* where a render goes after its write to a key
after_key_write(cfg, info, at) ==
    IF at.pc = "clear"
    THEN IF at.i + 1 < info.key_count
         THEN [pc |-> "clear", i |-> at.i + 1]
         ELSE [pc |-> "strip", i |-> 0]
    ELSE IF at.i < Len(DrawKeys(cfg, info))
         THEN [pc |-> "draw", i |-> at.i + 1]
         ELSE AtRest

\* set_key_image returns and the `with` block is left
KeyWrite(t) ==
    /\ lock = t
    /\ LET k == KeyOf(t)
           page == get_current_page(config)
       IN /\ wire' = Append(wire, [by |-> t, what |-> "key_end", arg |-> k])
          /\ tiles' = [tiles EXCEPT ![k] =
                          IF render[t].pc = "clear" THEN BlankTile
                          ELSE ButtonTile(page.buttons[k], page)]
    /\ lock' = Null
    /\ render' = [render EXCEPT ![t] = after_key_write(config, device_info, @)]
    /\ UNCHANGED strip

\* one pass of _send_neo_image's loop: the report is written to the HID
\* transport directly
StripFrame(t) ==
    /\ render[t].pc = "strip"
    /\ wire' = Append(wire, [by |-> t, what |-> "frame", arg |-> render[t].i])
    /\ IF render[t].i + 1 < StripFrames
       THEN /\ render' = [render EXCEPT ![t].i = @ + 1]
            /\ UNCHANGED strip
       ELSE /\ render' = [render EXCEPT ![t] =
                             IF DrawKeys(config, device_info) = <<>> THEN AtRest
                             ELSE [pc |-> "draw", i |-> 1]]
            /\ strip' = update_info_screen(config, connected, device_info, strip)
    /\ UNCHANGED <<tiles, lock>>

\* POST /device/brightness/{level} on the request thread
SetBrightness(level) ==
    /\ render["api"].pc = "idle"
    /\ connected
    /\ Len(wire) < MaxWrites
    /\ wire' = Append(wire, [by |-> "api", what |-> "brightness", arg |-> level])
    /\ UNCHANGED <<tiles, strip, render, lock>>

\* the controller after start() on a connected Neo, both threads at rest
InitWrites ==
    /\ watch = {}
    /\ disk \in InitDocs
    /\ config = load_config(disk)
    /\ connected = TRUE
    /\ device_info = [type |-> "Stream Deck Neo", key_count |-> KeyCount]
    /\ \E o \in render_current_page(config, TRUE, device_info, AllBlank, NoStrip) :
         /\ tiles = o.tiles
         /\ strip = o.strip
    /\ lastOp = Unwatched
    /\ IdleXfer
    /\ IdleThreads

\* what no device write touches
Writing == UNCHANGED <<config, disk, connected, device_info, lastOp, watch,
                       xferVars, apiPc, apiReq, hwPc, hwReq, events, calls>>

NextWrites ==
    \/ \E t \in Threads : RenderBegin(t) /\ Writing
    \/ \E t \in Threads : LockTake(t) /\ Writing
    \/ \E t \in Threads : KeyWrite(t) /\ Writing
    \/ \E t \in Threads : StripFrame(t) /\ Writing
    \/ SetBrightness(50) /\ Writing

SpecWrites == InitWrites /\ [][NextWrites]_vars

\* C13: device writes never overlap: once a write to a key has begun, the
\* next thing the device handle sees is the end of that write, and after a
\* frame of a strip transfer that is not the last, the next write is the
\* following frame of the same transfer.
C13_WritesSerialized ==
    \A n \in 1 .. (Len(wire) - 1) :
        /\ wire[n].what = "key_begin"
           => wire[n + 1] = [wire[n] EXCEPT !.what = "key_end"]
        /\ (wire[n].what = "frame" /\ wire[n].arg < StripFrames - 1)
           => wire[n + 1] = [wire[n] EXCEPT !.arg = @ + 1]

\* ------------------------------------------------------------ key events
\* The vendor library's reader thread calls
\* StreamDeckManager._handle_key_press(deck, key, state) for every key
\* transition, one call after the other; DeckController.on_key_press is the
\* callback start() registers.

\* key events delivered in one run
MaxEvents == 3
\* the keys on_key_press takes for the touch zones
PrevKey == 8
NextKey == 9
\* keys of the larger deck the controller is started on
BigKeyCount == 15
\* the decks: a small one and a larger one without an info screen; tiles
\* follows the first KeyCount keys of either
Decks == { [type |-> "Stream Deck Neo", key_count |-> KeyCount],
           [type |-> "Stream Deck Original", key_count |-> BigKeyCount] }
\* key indices the library reports: the first keys, the two after the last
\* key of either deck, and the touch keys
EventKeys == (0 .. (KeyCount + 1)) \cup {PrevKey, NextKey}
             \cup {BigKeyCount, BigKeyCount + 1}

\* plugin ids PluginManager.plugins holds
Plugins == {"cpu"}

\* setup_callbacks: the keys on_key_press is registered for
button_callbacks(info) == (0 .. (info.key_count - 1)) \cup {PrevKey, NextKey}

\* a handler that takes releases as well
handles_release(state) == TRUE

\* _handle_key_press: `if state:`
handles(state) == state

\* the None that page.buttons.get gives for a slot with no button
NoButton == [none |-> TRUE]

\* page.buttons.get(key)
button_of(buttons, key) ==
    IF key \in DOMAIN buttons THEN buttons[key] ELSE NoButton

\* `if button and button.action and button.action.plugin_id`
runs(button) ==
    /\ button # NoButton
    /\ button.action # NoAction
    /\ button.action.plugin_id # Null

\* the arguments of execute_plugin
call_of(button, key) ==
    [plugin_id |-> button.action.plugin_id, key |-> key,
     bg_color |-> button.bg_color, text_color |-> button.text_color,
     font_size |-> button.font_size]

\* execute_plugin: ValueError for an unknown id; a plugin's execute returns
\* or raises
results_of(plugin_id) ==
    IF plugin_id \in Plugins THEN {"ok", "failed"} ELSE {"not_found"}

\* a call log that keeps the newest call first
record_call_first(log, call) == <<call>> \o log

\* the call is made before on_key_press returns
record_call(log, call) == Append(log, call)

\* a callback invoked outside any try block
callback_unguarded(raised) == IF raised THEN "propagated" ELSE "ok"

\* _handle_key_press: an exception of the callback is caught and logged
callback_outcome(raised) == IF raised THEN "logged" ELSE "ok"

\* CPUInfoPlugin.execute: the text it puts on the key
PluginTile(call) ==
    [blank |-> FALSE, label |-> "CPU", icon |-> Null, font_size |-> call.font_size,
     bg_color |-> call.bg_color, text_color |-> call.text_color]

Delivered(key, state, outcome) ==
    events' = Append(events, [key |-> key, state |-> state, outcome |-> outcome])

\* _handle_key_press(deck, key, state), with the callback it calls
KeyEvent(key, state) ==
    /\ connected
    /\ Len(events) < MaxEvents
    /\ \A n \in 1 .. Len(events) : events[n].outcome # "propagated"
    /\ IF ~handles(state) \/ key \notin button_callbacks(device_info)
       THEN /\ Delivered(key, state, "ignored")
            /\ UNCHANGED <<config, disk, tiles, strip, calls>>
       ELSE IF key \in {PrevKey, NextKey}
       THEN /\ IF HasCurrentPage(config)
               THEN /\ config' = [config EXCEPT !.current_page_id =
                                     IF key = PrevKey THEN prev_page_id(config)
                                     ELSE next_page_id(config)]
                    /\ disk' = SavedDoc(config')
                    /\ \E o \in render_current_page(config', connected, device_info,
                                                    tiles, strip) :
                         /\ tiles' = o.tiles
                         /\ strip' = o.strip
                         /\ Delivered(key, state, callback_outcome(o.raised))
               ELSE /\ Delivered(key, state, "ok")
                    /\ UNCHANGED <<config, disk, tiles, strip>>
            /\ UNCHANGED calls
       ELSE LET button == IF HasCurrentPage(config)
                          THEN button_of(get_current_page(config).buttons, key)
                          ELSE NoButton
            IN IF runs(button)
               THEN \E result \in results_of(button.action.plugin_id) :
                      LET call == call_of(button, key)
                      IN /\ calls' = record_call(calls,
                                        [press |-> Len(events) + 1, call |-> call,
                                         result |-> result])
                         /\ tiles' = IF result = "ok" /\ key \in DOMAIN tiles
                                     THEN [tiles EXCEPT ![key] = PluginTile(call)]
                                     ELSE tiles
                         /\ Delivered(key, state, callback_outcome(result # "ok"))
                         /\ UNCHANGED <<config, disk, strip>>
               ELSE /\ Delivered(key, state, "ok")
                    /\ UNCHANGED <<config, disk, tiles, strip, calls>>
    /\ UNCHANGED <<connected, device_info, lastOp, watch, xferVars,
                   apiPc, apiReq, hwPc, hwReq, render, lock, wire>>

\* buttons the update endpoint stored: a disabled one with a plugin, one of
\* kind "script" that names a plugin, one whose plugin is not registered,
\* one with no action
ButtonOff(k) == [ButtonA(k) EXCEPT !.enabled = FALSE, !.label = "Off"]
ButtonScript(k) == [ButtonA(k) EXCEPT !.action.type = "script", !.label = "S"]
ButtonGone(k) == [ButtonA(k) EXCEPT !.action.plugin_id = "gone", !.label = "G"]
ButtonPlain(k) == [DefaultButton(k) EXCEPT !.label = "P", !.bg_color = <<5, 5, 5>>]

ButtonDocs(bs) == [x \in {StrOf(b.key) : b \in bs} |->
                     ButtonToDict(CHOOSE b \in bs : StrOf(b.key) = x)]
KeyDocs ==
    { Doc("object", NoButtonDocs, TRUE,
          << PageDoc("default", "Home", ButtonDocs({ButtonA(0), ButtonOff(1)})),
             PageDoc("p1", "Work", ButtonDocs({ButtonScript(0)})) >>,
          TRUE, "default"),
      Doc("object", NoButtonDocs, TRUE,
          << PageDoc("default", "Home", ButtonDocs({ButtonGone(0)})),
             PageDoc("p1", "Work", ButtonDocs({ButtonPlain(0), ButtonA(1)})) >>,
          TRUE, "default") }

\* the controller after start() on a connected device, no event delivered yet
InitKeys ==
    /\ watch = {}
    /\ disk \in KeyDocs
    /\ config = load_config(disk)
    /\ connected = TRUE
    /\ device_info \in Decks
    /\ \E o \in render_current_page(config, TRUE, device_info, AllBlank, NoStrip) :
         /\ tiles = o.tiles
         /\ strip = o.strip
    /\ lastOp = Unwatched
    /\ IdleXfer
    /\ IdleThreads

NextKeys == \E key \in EventKeys, state \in BOOLEAN : KeyEvent(key, state)

SpecKeys == InitKeys /\ [][NextKeys]_vars

\* the event a step delivers
Event == events'[Len(events')]
IsEvent == Len(events') = Len(events) + 1
KeyCountOf == device_info.key_count
ContentSlots == 0 .. (KeyCountOf - 1)

\* C15: on a deck of any key count, a press of slot key_count goes to the
\* previous page and a press of slot key_count + 1 to the next one, neither
\* calling a plugin, and a press of a slot below key_count leaves the
\* current page as it is.
C15_ReservedSlotsPage ==
    [][ (IsEvent /\ Event.state /\ HasCurrentPage(config))
        => /\ Event.key = KeyCountOf
              => (/\ config'.current_page_id = prev_page_id(config)
                  /\ calls' = calls)
           /\ Event.key = KeyCountOf + 1
              => (/\ config'.current_page_id = next_page_id(config)
                  /\ calls' = calls)
           /\ Event.key \in ContentSlots
              => config'.current_page_id = config.current_page_id
      ]_vars

\* C16: a press of a content slot calls execute_plugin exactly when the
\* current page has at that slot an enabled button whose action is of kind
\* plugin and names a plugin; the call carries that plugin id, the slot and
\* the button's own colours and font size.
C16_ExecuteWhenEnabledPlugin ==
    [][ (IsEvent /\ Event.state /\ Event.key \in ContentSlots /\ HasCurrentPage(config))
        => LET buttons == get_current_page(config).buttons
               k == Event.key
               due == /\ k \in DOMAIN buttons
                      /\ buttons[k].enabled
                      /\ buttons[k].action.type = "plugin"
                      /\ buttons[k].action.plugin_id # Null
           IN IF due
              THEN /\ Len(calls') = Len(calls) + 1
                   /\ calls'[Len(calls')].call =
                        [plugin_id |-> buttons[k].action.plugin_id, key |-> k,
                         bg_color |-> buttons[k].bg_color,
                         text_color |-> buttons[k].text_color,
                         font_size |-> buttons[k].font_size]
              ELSE calls' = calls
      ]_vars

\* C17: a press of a content slot that holds no button on the current page
\* calls no plugin, raises nothing, and leaves config, the saved document,
\* the keys and the info screen as they were.
C17_EmptySlotIsNoOp ==
    [][ (/\ IsEvent
         /\ Event.state
         /\ Event.key \in ContentSlots
         /\ HasCurrentPage(config)
         /\ Event.key \notin DOMAIN get_current_page(config).buttons)
        => /\ calls' = calls
           /\ Event.outcome = "ok"
           /\ UNCHANGED <<config, disk, tiles, strip>>
      ]_vars

\* C18: every execute_plugin call belongs to a press of its own, and the
\* calls were made in the order of those presses.
C18_OneCallPerPressInOrder ==
    \A i \in 1 .. Len(calls) :
        /\ calls[i].press \in 1 .. Len(events)
        /\ events[calls[i].press].state
        /\ events[calls[i].press].key = calls[i].call.key
        /\ i < Len(calls) => calls[i].press < calls[i + 1].press

\* the first and the third press each made a call
C18_TwoCallsSeen ==
    /\ Len(calls) = 2
    /\ calls[1].press = 1
    /\ calls[2].press = 3

\* C19: when execute_plugin raises (unknown plugin, or the plugin's execute
\* fails), _handle_key_press logs it and returns: config, the saved
\* document, the connection and the display are as before the press, and no
\* event ever ends with the exception leaving the handler, so the next
\* press is handled like any other.
C19_PluginFailureContained ==
    /\ [][ (Len(calls') = Len(calls) + 1 /\ calls'[Len(calls')].result # "ok")
           => /\ IsEvent
              /\ Event.outcome = "logged"
              /\ UNCHANGED <<config, disk, connected, device_info, tiles, strip>>
         ]_vars
    /\ [](\A n \in 1 .. Len(events) : events[n].outcome \in {"ok", "logged", "ignored"})

\* a press whose plugin failed was followed by a press whose plugin ran
C19_CallAfterFailure ==
    /\ Len(calls) = 2
    /\ calls[1].result = "failed"
    /\ calls[2].result = "ok"
    /\ events[calls[1].press].outcome = "logged"

\* C20: a release (state false) reaches no callback: no plugin is called,
\* and the current page, config, the saved document and what the device
\* shows stay as they are.
C20_ReleaseIgnored ==
    [][ (IsEvent /\ ~Event.state)
        => /\ Event.outcome = "ignored"
           /\ calls' = calls
           /\ UNCHANGED <<config, disk, tiles, strip>>
      ]_vars

\* keys 0 and 8 were released after a press of key 0 called a plugin
C20_ReleasesSeen ==
    /\ Len(events) = 3
    /\ events[1].key = 0 /\ events[1].state
    /\ events[2].key = 0 /\ ~events[2].state
    /\ events[3].key = PrevKey /\ ~events[3].state
    /\ Len(calls) = 1

\* ------------------------------------------------ colour inheritance
\* requests that set each colour to the default or to a colour of its own
ColorButtonRequests ==
    { [label |-> "A", icon |-> Null, action_type |-> "none", plugin_id |-> Null,
       bg_color |-> bg, text_color |-> text, font_size |-> 14, enabled |-> TRUE] :
        bg \in {DefaultBg, <<5, 5, 5>>}, text \in {DefaultText, <<9, 9, 9>>} }
ColorPageRequests ==
    { [title |-> "Work", bg_color |-> bg, text_color |-> text] :
        bg \in {NoColor, <<10, 20, 30>>}, text \in {NoColor, <<1, 2, 3>>} }

NextColors ==
    \/ Start /\ Alone
    \/ \E page_id \in AskedPageIds : SwitchPage(page_id) /\ Alone
    \/ \E page_id \in AskedPageIds, req \in ColorPageRequests :
         ApiUpdatePage(page_id, req) /\ Alone
    \/ \E key \in Slots, req \in ColorButtonRequests : UpdateButton(key, req) /\ Alone

InitColors ==
    /\ InitCtl({"update_button", "api_update_page"})
    /\ disk = LegacyDoc
    /\ IdleXfer /\ IdleThreads

SpecColors == InitColors /\ [][NextColors]_vars

\* the colours the rule gives a button on a page
InheritedBg(button, page) ==
    IF button.bg_color = <<0, 0, 0>> /\ page.bg_color # NoColor
    THEN page.bg_color ELSE button.bg_color
InheritedText(button, page) ==
    IF button.text_color = <<255, 255, 255>> /\ page.text_color # NoColor
    THEN page.text_color ELSE button.text_color
FollowsRule(tile, button, page) ==
    /\ ~tile.blank
    /\ tile.bg_color = InheritedBg(button, page)
    /\ tile.text_color = InheritedText(button, page)

\* C21: a button is drawn with the page's background when its own is (0,0,0)
\* and the page has one, else with its own, and likewise with the page's text
\* colour when its own is (255,255,255); both the full page render (here of
\* the page update endpoint and of switch_page) and update_button draw so.
C21_ColoursInherited ==
    /\ [][\A page_id \in AskedPageIds :
            ((\/ \E req \in ColorPageRequests : ApiUpdatePage(page_id, req)
              \/ SwitchPage(page_id))
             /\ connected /\ HasPage(config, page_id) /\ HasCurrentPage(config'))
            => LET page == get_current_page(config')
               IN \A k \in DOMAIN page.buttons \cap DeviceSlots :
                    page.buttons[k].enabled
                    => FollowsRule(tiles'[k], page.buttons[k], page)]_vars
    /\ [][\A key \in DeviceSlots, req \in ColorButtonRequests :
            (UpdateButton(key, req) /\ connected /\ HasCurrentPage(config))
            => FollowsRule(tiles'[key], ButtonOfRequest(key, req),
                           get_current_page(config'))]_vars

\* update_button drew a button with a background of its own and default text on
\* a page that has both colours: own background, the page's text colour
C21_OwnBackgroundKept ==
    /\ lastOp.op = "update_button"
    /\ lastOp.status = "ok"
    /\ lastOp.saves = 1
    /\ lastOp.args[2].bg_color = <<5, 5, 5>>
    /\ lastOp.args[2].text_color = DefaultText
    /\ HasCurrentPage(config)
    /\ get_current_page(config).bg_color = <<10, 20, 30>>
    /\ get_current_page(config).text_color = <<1, 2, 3>>
    /\ tiles[lastOp.args[1]].bg_color = <<5, 5, 5>>
    /\ tiles[lastOp.args[1]].text_color = <<1, 2, 3>>

\* ------------------------------------------- legacy and paged documents
\* a flat mapping from slot strings to ButtonDoc, with no other key
IsLegacyDoc(d) ==
    /\ d.kind = "object"
    /\ DOMAIN d.numeric # {}
    /\ ~d.has_pages
    /\ ~d.has_current
IsEmptyDoc(d) ==
    /\ d.kind = "object"
    /\ DOMAIN d.numeric = {}
    /\ ~d.has_pages
    /\ ~d.has_current
SlotsOfDoc(d) == {k \in 0 .. (Len(SlotStrings) - 1) : SlotStrings[k + 1] \in DOMAIN d.numeric}
HomePage(buttons) ==
    [key |-> "default", id |-> "default", title |-> "Home", buttons |-> buttons,
     bg_color |-> NoColor, text_color |-> NoColor]

\* C22: loading a legacy document gives exactly one page, id "default" and
\* title "Home", whose button map has exactly the document's slots (each
\* holding the document's button), and current_page_id "default".
C22_LegacyLoadsAsHome ==
    (lastOp.op = "reload" /\ IsLegacyDoc(disk))
    => /\ Len(config.pages) = 1
       /\ config.pages[1].id = "default"
       /\ config.pages[1].title = "Home"
       /\ DOMAIN config.pages[1].buttons = SlotsOfDoc(disk)
       /\ \A k \in SlotsOfDoc(disk) :
            config.pages[1].buttons[k] = ButtonFromDict(disk.numeric[SlotStrings[k + 1]])
       /\ config.current_page_id = "default"

\* the legacy document {"1": {...}} was loaded: one page holding slot 1
C22_LegacyLoaded ==
    /\ lastOp.op = "reload"
    /\ IsLegacyDoc(disk)
    /\ DOMAIN disk.numeric = {"1"}
    /\ Len(config.pages) = 1
    /\ DOMAIN config.pages[1].buttons = {1}

\* C23: a document is read as legacy exactly when all its top-level keys are
\* numeric or it is empty; a document with a pages key, with or without
\* numeric top-level keys beside it, is read as paged and its pages are kept.
C23_PagesKeyMeansPaged ==
    lastOp.op = "reload" /\ disk.kind = "object"
    => /\ (IsLegacyDoc(disk) \/ IsEmptyDoc(disk))
          => config = [pages |-> <<HomePage(config.pages[1].buttons)>>,
                       current_page_id |-> "default"]
       /\ (disk.has_pages /\ disk.pages # <<>>)
          => config.pages = [i \in 1 .. Len(disk.pages) |-> PageFromDict(disk.pages[i])]

\* C24: load_config never raises: a missing, unreadable or malformed document,
\* an empty one and a paged one with an empty pages mapping all give the
\* default config: one page "default"/"Home" without buttons, current
\* page "default".
C24_LoadFallsBackToDefault ==
    (/\ lastOp.op = "reload"
     /\ \/ disk.kind \in {"absent", "invalid"}
        \/ IsEmptyDoc(disk)
        \/ disk.kind = "object" /\ disk.has_pages /\ disk.pages = <<>>)
    => config = [pages |-> <<HomePage(NoButtons)>>, current_page_id |-> "default"]

\* C25: every mutation is saved before its operation answers: when an
\* operation that changes config (here the swap endpoint, and switch_page
\* called for a page key) returns to its caller, the saved document is the
\* serialization of config as it is in memory.
C25_SavedOnReturn ==
    [][ ((apiPc = "render" /\ apiPc' = "idle") \/ (hwPc = "render" /\ hwPc' = "idle"))
        => disk' = SavedDoc(config') ]_vars

\* ------------------------------------------------------ page navigation
\* three stored pages, the middle one current
ThreePageDoc ==
    Doc("object", NoButtonDocs, TRUE,
        << PageDoc("default", "Home", OneButtonDocs("0", 0)),
           PageDoc("p1", "Work", NoButtonDocs),
           PageDoc("p2", "Play", OneButtonDocs("1", 1)) >>,
        TRUE, "p1")
NavDocs == {LegacyDoc, DanglingDoc, ThreePageDoc}
NavPageIds == {"default", "p1", "p2", "ghost"}

InitNav ==
    /\ watch = {"next_page", "prev_page", "switch_page", "create_page", "delete_page"}
    /\ disk \in NavDocs
    /\ config = load_config(disk)
    /\ connected = FALSE
    /\ device_info = NoInfo
    /\ tiles = AllBlank
    /\ strip = NoStrip
    /\ lastOp = Unwatched
    /\ IdleXfer /\ IdleThreads

NextNav ==
    \/ Start /\ Alone
    \/ \E page_id \in NavPageIds : SwitchPage(page_id) /\ Alone
    \/ NextPage /\ Alone
    \/ PrevPage /\ Alone
    \/ \E page_id \in NavPageIds \ {"ghost"}, title \in Titles :
         CreatePage(page_id, title) /\ Alone
    \/ \E page_id \in NavPageIds : DeletePage(page_id) /\ Alone

SpecNav == InitNav /\ [][NextNav]_vars

\* the current page's place in the stored order, and its neighbours' keys
PlaceOf(cfg) == CHOOSE i \in 1 .. Len(cfg.pages) : cfg.pages[i].key = cfg.current_page_id
Following(cfg) ==
    cfg.pages[IF PlaceOf(cfg) = Len(cfg.pages) THEN 1 ELSE PlaceOf(cfg) + 1].key
Preceding(cfg) ==
    cfg.pages[IF PlaceOf(cfg) = 1 THEN Len(cfg.pages) ELSE PlaceOf(cfg) - 1].key
AfterNext(cfg) == [cfg EXCEPT !.current_page_id = next_page_id(cfg)]
AfterPrev(cfg) == [cfg EXCEPT !.current_page_id = prev_page_id(cfg)]
RECURSIVE NextTimes(_, _)
NextTimes(cfg, n) == IF n = 0 THEN cfg ELSE NextTimes(AfterNext(cfg), n - 1)

\* C26: next_page makes the page after the current one (in stored order, the
\* first after the last) current and prev_page the page before it (the last
\* before the first); prev_page after next_page gives back the current page,
\* and as many next_page calls as there are pages lead back to it.
C26_NextPrevCycle ==
    /\ [][(NextPage /\ HasCurrentPage(config))
          => (config'.current_page_id = Following(config) /\ config'.pages = config.pages)]_vars
    /\ [][(PrevPage /\ HasCurrentPage(config))
          => (config'.current_page_id = Preceding(config) /\ config'.pages = config.pages)]_vars
    /\ [](HasCurrentPage(config)
          => /\ AfterPrev(AfterNext(config)) = config
             /\ NextTimes(config, Len(config.pages)) = config)

\* next_page went from the last of three pages to the first
C26_WrappedToFirst ==
    /\ lastOp.op = "next_page"
    /\ lastOp.saves = 1
    /\ Len(config.pages) = 3
    /\ config.current_page_id = config.pages[1].key
    /\ lastOp.args = <<config.pages[1].key>>

\* C27: with exactly one page, next_page and prev_page change nothing: config
\* stays as it is, nothing is saved and nothing is written to the device.
C27_SinglePageNoOp ==
    [][((NextPage \/ PrevPage) /\ Len(config.pages) = 1)
       => /\ config' = config
          /\ disk' = disk
          /\ lastOp'.saves = 0
          /\ tiles' = tiles /\ strip' = strip]_vars

\* every key shows its enabled button of the current page, drawn by the
\* colour rule, or is blank, and the info screen shows that page
FullyRendered(cfg, shown, screen) ==
    LET page == cfg.pages[PlaceOf(cfg)]
    IN /\ \A k \in DeviceSlots :
            IF k \in DOMAIN page.buttons /\ page.buttons[k].enabled
            THEN /\ FollowsRule(shown[k], page.buttons[k], page)
                 /\ shown[k].label = page.buttons[k].label
            ELSE shown[k] = BlankTile
       /\ screen.title = page.title
       /\ screen.index = PlaceOf(cfg)
       /\ screen.total = Len(cfg.pages)

\* C28: switch_page with an id that is no page key changes nothing, saves
\* nothing and renders nothing; with a page key it makes that page current,
\* saves the config and renders the whole page.
C28_SwitchPage ==
    [][\A page_id \in NavPageIds :
         SwitchPage(page_id)
         => IF \E i \in 1 .. Len(config.pages) : config.pages[i].key = page_id
            THEN /\ config' = [config EXCEPT !.current_page_id = page_id]
                 /\ disk' = SavedDoc(config')
                 /\ lastOp'.saves = 1
                 /\ connected => FullyRendered(config', tiles', strip')
            ELSE /\ config' = config
                 /\ disk' = disk
                 /\ lastOp'.saves = 0
                 /\ tiles' = tiles /\ strip' = strip]_vars

\* switch_page made the third page current on a connected device: its button
\* is on key 1 and key 0 is blank
C28_SwitchedToThird ==
    /\ lastOp.op = "switch_page"
    /\ lastOp.args = <<"p2">>
    /\ lastOp.saves = 1
    /\ connected
    /\ Len(config.pages) = 3
    /\ config.current_page_id = "p2"
    /\ ~tiles[1].blank
    /\ tiles[0].blank
    /\ strip.index = 3

\* C29: create_page takes an id that is no page key yet, appends one page
\* with that id, the title and no buttons after the stored pages, saves, and
\* leaves current_page_id and the other pages as they were; the info screen
\* is refreshed and no key is written.
C29_CreatePage ==
    [][\A page_id \in NavPageIds, title \in Titles :
         CreatePage(page_id, title)
         => /\ \A i \in 1 .. Len(config.pages) : config.pages[i].key # page_id
            /\ config'.pages = Append(config.pages,
                                      [key |-> page_id, id |-> page_id, title |-> title,
                                       buttons |-> NoButtons,
                                       bg_color |-> NoColor, text_color |-> NoColor])
            /\ config'.current_page_id = config.current_page_id
            /\ disk' = SavedDoc(config')
            /\ lastOp'.saves = 1
            /\ tiles' = tiles
            /\ (connected /\ HasCurrentPage(config))
               => (strip'.total = Len(config.pages) + 1 /\ strip'.index = PlaceOf(config))]_vars

\* create_page added a second page while the first one stayed current
C29_SecondPageAdded ==
    /\ lastOp.op = "create_page"
    /\ lastOp.saves = 1
    /\ connected
    /\ Len(config.pages) = 2
    /\ config.pages[2].id = lastOp.args[1]
    /\ config.pages[2].buttons = NoButtons
    /\ config.current_page_id = config.pages[1].key
    /\ strip.total = 2

\* C30: delete_page of a page key, with more than one page stored, removes
\* that page only and keeps the others in order and as they were; if it was
\* the current page the first remaining page becomes current and is rendered
\* in full, else current_page_id stays and only the info screen is refreshed.
C30_DeletePage ==
    [][\A page_id \in NavPageIds :
         (DeletePage(page_id) /\ Len(config.pages) > 1
            /\ \E i \in 1 .. Len(config.pages) : config.pages[i].key = page_id)
         => /\ config'.pages = SelectSeq(config.pages, LAMBDA p : p.key # page_id)
            /\ IF config.current_page_id = page_id
               THEN /\ config'.current_page_id = config'.pages[1].key
                    /\ connected => FullyRendered(config', tiles', strip')
               ELSE /\ config'.current_page_id = config.current_page_id
                    /\ tiles' = tiles
                    /\ (connected /\ HasCurrentPage(config))
                       => (strip'.total = Len(config.pages) - 1
                           /\ strip'.title = get_current_page(config).title)]_vars

\* delete_page removed the current first page of three: the second page is
\* current now and shown on a connected device
C30_CurrentDeleted ==
    /\ lastOp.op = "delete_page"
    /\ lastOp.args = <<"default">>
    /\ lastOp.saves = 1
    /\ connected
    /\ PageKeys(config) = <<"p1", "p2">>
    /\ config.current_page_id = "p1"
    /\ tiles[0].blank
    /\ strip.title = "Work"

\* ------------------------------------------------- buttons of the page
NextButtons ==
    \/ Start /\ Alone
    \/ \E page_id \in AskedPageIds : SwitchPage(page_id) /\ Alone
    \/ \E key \in Slots, req \in ButtonRequests : UpdateButton(key, req) /\ Alone
    \/ \E key \in Slots : ClearButton(key) /\ Alone

InitButtons ==
    /\ InitCtl({"update_button", "clear_button"})
    /\ disk \in {LegacyDoc, GoodDoc, DanglingDoc}
    /\ IdleXfer /\ IdleThreads

SpecButtons == InitButtons /\ [][NextButtons]_vars

\* cfg' differs from cfg at most in the button map of cfg's current page
OnlyCurrentButtonsChanged(cfg, new) ==
    /\ new.current_page_id = cfg.current_page_id
    /\ Len(new.pages) = Len(cfg.pages)
    /\ \A i \in 1 .. Len(cfg.pages) :
         IF i = PlaceOf(cfg)
         THEN [new.pages[i] EXCEPT !.buttons = cfg.pages[i].buttons] = cfg.pages[i]
         ELSE new.pages[i] = cfg.pages[i]

\* C31: update_button on a connected device, for a key the device has, puts
\* the button under that key of the current page's map, in place of what was
\* there and with every other slot and page untouched, saves, and leaves the
\* key showing the button's bitmap if it is enabled and blank if it is not.
C31_UpdateButton ==
    [][\A key \in Slots, req \in ButtonRequests :
         (UpdateButton(key, req) /\ connected /\ key < device_info.key_count
            /\ HasCurrentPage(config))
         => LET old == config.pages[PlaceOf(config)].buttons
                new == config'.pages[PlaceOf(config)].buttons
            IN /\ OnlyCurrentButtonsChanged(config, config')
               /\ DOMAIN new = DOMAIN old \cup {key}
               /\ new[key] = ButtonOfRequest(key, req)
               /\ \A k \in DOMAIN old \ {key} : new[k] = old[k]
               /\ disk' = SavedDoc(config')
               /\ \A k \in DeviceSlots \ {key} : tiles'[k] = tiles[k]
               /\ IF req.enabled
                  THEN ~tiles'[key].blank /\ tiles'[key].label = req.label
                  ELSE tiles'[key] = BlankTile]_vars

\* update_button replaced the enabled button on key 0, which was shown, by a
\* disabled one: the key is blank and the button is stored
C31_DisabledShownBlank ==
    /\ lastOp.op = "update_button"
    /\ lastOp.status = "ok"
    /\ lastOp.saves = 1
    /\ lastOp.args[1] = 0
    /\ ~lastOp.args[2].enabled
    /\ HasCurrentPage(config)
    /\ 0 \in DOMAIN get_current_page(config).buttons
    /\ get_current_page(config).buttons[0].label = "B"
    /\ tiles[0] = BlankTile
    /\ disk = SavedDoc(config)

\* C32: clear_button on a connected device removes the current page's entry
\* at the key if there is one, saves and blanks the key; with no entry there
\* it changes nothing, saves nothing and writes nothing. Either way the key
\* holds no entry afterwards, so a second clear_button changes nothing more.
C32_ClearButton ==
    [][\A key \in Slots :
         (ClearButton(key) /\ connected /\ HasCurrentPage(config))
         => LET old == config.pages[PlaceOf(config)].buttons
                new == config'.pages[PlaceOf(config)].buttons
            IN /\ key \notin DOMAIN new
               /\ IF key \in DOMAIN old
                  THEN /\ OnlyCurrentButtonsChanged(config, config')
                       /\ DOMAIN new = DOMAIN old \ {key}
                       /\ \A k \in DOMAIN new : new[k] = old[k]
                       /\ disk' = SavedDoc(config')
                       /\ lastOp'.saves = 1
                       /\ key \in DeviceSlots => tiles'[key] = BlankTile
                       /\ \A k \in DeviceSlots \ {key} : tiles'[k] = tiles[k]
                  ELSE /\ config' = config
                       /\ disk' = disk
                       /\ lastOp'.saves = 0
                       /\ tiles' = tiles /\ strip' = strip]_vars

\* clear_button found no entry under the key on a connected device and a
\* document that was never saved: nothing was saved
C32_NothingToClear ==
    /\ lastOp.op = "clear_button"
    /\ lastOp.status = "ok"
    /\ lastOp.saves = 0
    /\ connected
    /\ HasCurrentPage(config)
    /\ lastOp.args[1] \notin DOMAIN get_current_page(config).buttons
    /\ disk = LegacyDoc

\* --------------------------------------------------- start on any deck
\* DeckController.start with the deck DeviceManager().enumerate() finds first:
\* connect, setup_callbacks, render_current_page; with no deck found
\* connect returns False and start does nothing
StartOn(deck) ==
    /\ ~connected
    /\ \E o \in render_current_page(config, TRUE, deck, AllBlank, NoStrip) :
         /\ connected' = TRUE
         /\ device_info' = deck
         /\ tiles' = o.tiles
         /\ strip' = o.strip
         /\ lastOp' = Done("start", <<>>, Status(o.raised), 0)
    /\ UNCHANGED <<config, disk, events, calls>>
StartFails ==
    /\ ~connected
    /\ lastOp' = Done("start", <<>>, "no_device", 0)
    /\ UNCHANGED <<config, disk, connected, device_info, tiles, strip, events, calls>>
StopDeck == Stop /\ UNCHANGED <<events, calls>>

\* what no step of start, stop or a key event touches
Quiet == UNCHANGED <<watch, xferVars, apiPc, apiReq, hwPc, hwReq, render, lock, wire>>

InitStart ==
    /\ InitCtl({"start"})
    /\ disk \in {LegacyDoc, GoodDoc}
    /\ IdleXfer /\ IdleThreads

NextStart ==
    \/ \E deck \in Decks : StartOn(deck) /\ Quiet
    \/ StartFails /\ Quiet
    \/ StopDeck /\ Quiet
    \/ \E key \in EventKeys, state \in BOOLEAN : KeyEvent(key, state)

SpecStart == InitStart /\ [][NextStart]_vars

\* C33: the controller starts disconnected; a start whose connect fails
\* leaves it disconnected, registers no callback and writes nothing, so that
\* start can be tried again; a start whose connect succeeds leaves it
\* connected with on_key_press registered for every slot below key_count and
\* for the two paging slots key_count and key_count + 1, and the current page
\* rendered in full.
C33_StartRegistersAndRenders ==
    /\ ~connected
    /\ [][StartFails => (~connected' /\ device_info' = device_info
                         /\ tiles' = tiles /\ strip' = strip
                         /\ ENABLED StartFails)]_vars
    /\ [][\A deck \in Decks :
            StartOn(deck)
            => /\ connected'
               /\ button_callbacks(device_info') = 0 .. (deck.key_count + 1)
               /\ HasCurrentPage(config)
                  => \A k \in DeviceSlots :
                       LET page == get_current_page(config)
                       IN IF k \in DOMAIN page.buttons /\ page.buttons[k].enabled
                          THEN FollowsRule(tiles'[k], page.buttons[k], page)
                          ELSE tiles'[k] = BlankTile]_vars

\* C34: a call that has to write to the device, made while disconnected,
\* answers NotConnected and is never silently dropped; here the controller
\* operations that changed the config and owe the display a render or an
\* info-screen refresh: switch_page, next_page, prev_page, create_page and
\* delete_page.
C34_DisconnectedIsReported ==
    [][(/\ ~connected
        /\ lastOp'.op \in {"switch_page", "next_page", "prev_page", "create_page",
                           "delete_page"}
        /\ lastOp'.saves = 1)
       => lastOp'.status = "NotConnected"]_vars

\* ------------------------------------------ StreamDeckManager key calls
\* set_button_image, clear_button and clear_all_buttons called one at a time;
\* wire holds the key writes of the last call. The manager passes the key to
\* the vendor library's set_key_image unchecked: for a key the device does
\* not have the library raises IndexError or takes the write.
ImageTile == [BlankTile EXCEPT !.blank = FALSE, !.label = "img"]
DeviceKeys == 0 .. (KeyCount + 1)
KeyWritten(key) == [by |-> "api", what |-> "key", arg |-> key]

set_key_image(op, key, tile) ==
    IF ~connected
    THEN /\ lastOp' = Done(op, <<key>>, "NotConnected", 0)
         /\ wire' = <<>>
         /\ UNCHANGED tiles
    ELSE IF InRange(key, device_info)
    THEN /\ lastOp' = Done(op, <<key>>, "ok", 0)
         /\ wire' = <<KeyWritten(key)>>
         /\ tiles' = [tiles EXCEPT ![key] = tile]
    ELSE \/ /\ lastOp' = Done(op, <<key>>, "IndexError", 0)
            /\ wire' = <<>>
            /\ UNCHANGED tiles
         \/ /\ lastOp' = Done(op, <<key>>, "ok", 0)
            /\ wire' = <<KeyWritten(key)>>
            /\ UNCHANGED tiles

set_button_image(key) == set_key_image("set_button_image", key, ImageTile)
device_clear_button(key) == set_key_image("clear_button", key, BlankTile)

clear_all_buttons ==
    IF ~connected
    THEN /\ lastOp' = Done("clear_all_buttons", <<>>, "NotConnected", 0)
         /\ wire' = <<>>
         /\ UNCHANGED tiles
    ELSE /\ lastOp' = Done("clear_all_buttons", <<>>, "ok", 0)
         /\ wire' = [n \in 1 .. device_info.key_count |-> KeyWritten(n - 1)]
         /\ tiles' = AllBlank

\* what a manager call leaves alone
Handled == UNCHANGED <<config, disk, connected, device_info, strip, watch, xferVars,
                       apiPc, apiReq, hwPc, hwReq, render, lock, events, calls>>

InitDevice ==
    /\ InitCtl({"set_button_image", "clear_button", "clear_all_buttons"})
    /\ disk \in {LegacyDoc, GoodDoc}
    /\ IdleXfer /\ IdleThreads

NextDevice ==
    \/ Start /\ Alone
    \/ Stop /\ Alone
    \/ \E key \in DeviceKeys : set_button_image(key) /\ Handled
    \/ \E key \in DeviceKeys : device_clear_button(key) /\ Handled
    \/ clear_all_buttons /\ Handled

SpecDevice == InitDevice /\ [][NextDevice]_vars

\* C35: set_button_image and clear_button for a key at or beyond key_count
\* fail with the invalid-slot error and write nothing to the device;
\* clear_all_buttons blanks the keys 0 .. key_count - 1 and writes no other.
C35_InvalidSlotRejected ==
    /\ [][\A key \in DeviceKeys :
            ((set_button_image(key) \/ device_clear_button(key))
             /\ connected /\ key >= device_info.key_count)
            => (lastOp'.status = "IndexError" /\ wire' = <<>> /\ tiles' = tiles)]_vars
    /\ [][(clear_all_buttons /\ connected)
          => /\ {wire'[n].arg : n \in 1 .. Len(wire')} = 0 .. (device_info.key_count - 1)
             /\ Len(wire') = device_info.key_count
             /\ \A k \in DeviceSlots : tiles'[k] = BlankTile]_vars

\* ------------------------------------- order of save and device writes
\* the page operations with the order of their calls kept: wire holds, for
\* the last page operation, save_config and the calls that wrote to the
\* device, in the order the handler makes them
Call(what) == [by |-> "api", what |-> what, arg |-> 0]
\* render_current_page writes when connected and a current page exists
Renders(cfg) == IF connected /\ HasCurrentPage(cfg) THEN <<Call("render")>> ELSE <<>>
\* update_info_screen writes on a connected Neo with a current page
Refreshes(cfg) ==
    IF connected /\ device_info.type = "Stream Deck Neo" /\ HasCurrentPage(cfg)
    THEN <<Call("strip")>> ELSE <<>>
Traced == UNCHANGED <<watch, xferVars, apiPc, apiReq, hwPc, hwReq, render, lock, events,
                      calls>>

\* switch_page: save_config, then render_current_page (controller.py:375-376)
switch_page_calls(page_id) ==
    IF HasPage(config, page_id) THEN <<Call("save")>> \o Renders(config') ELSE <<>>
SwitchPageCalls(page_id) ==
    SwitchPage(page_id) /\ wire' = switch_page_calls(page_id)
NextPageCalls ==
    NextPage /\ wire' = IF HasCurrentPage(config)
                        THEN switch_page_calls(next_page_id(config)) ELSE <<>>
PrevPageCalls ==
    PrevPage /\ wire' = IF HasCurrentPage(config)
                        THEN switch_page_calls(prev_page_id(config)) ELSE <<>>
\* create_page: save_config, then update_info_screen (controller.py:388-389)
CreatePageCalls(page_id, title) ==
    CreatePage(page_id, title) /\ wire' = <<Call("save")>> \o Refreshes(config')
\* delete_page: render_current_page or update_info_screen, then save_config
\* (controller.py:396-401)
DeletePageCalls(page_id) ==
    /\ DeletePage(page_id)
    /\ wire' = IF ~can_delete(config, page_id) THEN <<>>
               ELSE (IF config.current_page_id = page_id
                     THEN Renders(config') ELSE Refreshes(config'))
                    \o (IF disk' = SavedDoc(config') THEN <<Call("save")>> ELSE <<>>)
\* update_page: save_config, then update_info_screen for the current page
\* (controller.py:406-409)
UpdatePageCalls(page_id, title) ==
    /\ UpdatePage(page_id, title)
    /\ wire' = IF ~HasPage(config, page_id) THEN <<>>
               ELSE <<Call("save")>>
                    \o (IF config.current_page_id = page_id
                        THEN Refreshes(config') ELSE <<>>)

InitOrder ==
    /\ watch = {}
    /\ disk \in NavDocs
    /\ config = load_config(disk)
    /\ connected = FALSE
    /\ device_info = NoInfo
    /\ tiles = AllBlank
    /\ strip = NoStrip
    /\ lastOp = Unwatched
    /\ IdleXfer /\ IdleThreads

NextOrder ==
    \/ Start /\ Alone
    \/ \E page_id \in NavPageIds : SwitchPageCalls(page_id) /\ Traced
    \/ NextPageCalls /\ Traced
    \/ PrevPageCalls /\ Traced
    \/ \E page_id \in NavPageIds \ {"ghost"}, title \in Titles :
         CreatePageCalls(page_id, title) /\ Traced
    \/ \E page_id \in NavPageIds : DeletePageCalls(page_id) /\ Traced
    \/ \E page_id \in NavPageIds, title \in Titles : UpdatePageCalls(page_id, title) /\ Traced

SpecOrder == InitOrder /\ [][NextOrder]_vars

\* C36: in every page operation (switch_page, next_page, prev_page,
\* create_page, delete_page, update_page) save_config is called before any
\* device write of the operation's render or info-screen refresh.
C36_SaveBeforeWrites ==
    \A n \in 1 .. Len(wire), m \in 1 .. Len(wire) :
        (wire[n].what \in {"render", "strip"} /\ wire[m].what = "save") => m < n

\* ------------------------------------------- what the keys show
\* operations on the current page and its buttons, and presses of the
\* content keys, on a started Neo
ShownDoc ==
    Doc("object", NoButtonDocs, TRUE,
        << PageDoc("default", "Home", ButtonDocs({ButtonA(0), ButtonOff(1)})),
           PageDoc("p1", "Work", ButtonDocs({ButtonPlain(0)})) >>,
        TRUE, "default")

\* key presses delivered in one behaviour of SpecShown
MaxPresses == 1

InitShown ==
    /\ watch = {}
    /\ disk = ShownDoc
    /\ config = load_config(disk)
    /\ connected = TRUE
    /\ device_info = [type |-> "Stream Deck Neo", key_count |-> KeyCount]
    /\ \E o \in render_current_page(config, TRUE, device_info, AllBlank, NoStrip) :
         /\ tiles = o.tiles
         /\ strip = o.strip
    /\ lastOp = Unwatched
    /\ IdleXfer /\ IdleThreads

NextShown ==
    \/ \E page_id \in AskedPageIds : SwitchPage(page_id) /\ Alone
    \/ \E page_id \in AskedPageIds : DeletePage(page_id) /\ Alone
    \/ \E key \in Slots, req \in ButtonRequests : UpdateButton(key, req) /\ Alone
    \/ \E key \in Slots : ClearButton(key) /\ Alone
    \/ \E page_id \in AskedPageIds, key1 \in Slots, key2 \in Slots :
         SwapButtons(page_id, key1, key2) /\ Alone
    \/ \E source \in AskedPageIds, key \in Slots, target \in AskedPageIds :
         MoveButton(source, key, target) /\ Alone
    \/ \E key \in DeviceSlots : Len(events) < MaxPresses /\ KeyEvent(key, TRUE)

SpecShown == InitShown /\ [][NextShown]_vars

\* C37: on a connected device, once an operation on the current page or its
\* buttons has completed and none is under way, each key below key_count
\* shows a bitmap exactly when the current page has an enabled button at
\* that slot, and is blank otherwise.
C37_KeysShowEnabledButtons ==
    (connected /\ HasCurrentPage(config))
    => \A k \in DeviceSlots :
         ~tiles[k].blank
         <=> (/\ k \in DOMAIN get_current_page(config).buttons
              /\ get_current_page(config).buttons[k].enabled)

\* ------------------------------------------------- the info screen (C38)
PageOps == {"switch_page", "next_page", "prev_page", "create_page", "delete_page",
            "update_page"}

InitInfo ==
    /\ watch = PageOps
    /\ disk \in NavDocs
    /\ config = load_config(disk)
    /\ connected = FALSE
    /\ device_info = NoInfo
    /\ tiles = AllBlank
    /\ strip = NoStrip
    /\ lastOp = Unwatched
    /\ IdleXfer /\ IdleThreads

NextInfo ==
    \/ Start /\ Alone
    \/ \E page_id \in NavPageIds : SwitchPage(page_id) /\ Alone
    \/ NextPage /\ Alone
    \/ PrevPage /\ Alone
    \/ \E page_id \in NavPageIds \ {"ghost"}, title \in Titles :
         CreatePage(page_id, title) /\ Alone
    \/ \E page_id \in NavPageIds : DeletePage(page_id) /\ Alone
    \/ \E page_id \in NavPageIds, title \in Titles : UpdatePage(page_id, title) /\ Alone

SpecInfo == InitInfo /\ [][NextInfo]_vars

\* the strip image names the current page of cfg, its 1-based place in the
\* stored order and the number of pages
Encodes(shown, cfg) ==
    /\ shown.title = get_current_page(cfg).title
    /\ shown.total = Len(cfg.pages)
    /\ shown.index \in 1 .. shown.total
    /\ cfg.pages[shown.index].key = cfg.current_page_id

\* C38: on a connected device with an info strip, after a page operation
\* (switch, next, prev, create, delete, rename) the strip image last sent shows
\* the current page's title, its 1-based index in the stored order and the
\* number of pages, with 1 <= index <= total.
C38_StripShowsCurrentPage ==
    [][(/\ lastOp'.op \in PageOps
        /\ connected'
        /\ device_info'.type = "Stream Deck Neo"
        /\ HasCurrentPage(config'))
       => Encodes(strip', config')]_vars

\* a page before the current one was deleted: the strip counts 2 of 2
C38_StripAfterDelete ==
    /\ connected
    /\ lastOp.op = "delete_page"
    /\ lastOp.saves = 1
    /\ strip.index = 2
    /\ strip.total = 2
    /\ strip.title = "Play"

\* --------------------------------------------- slot fields of buttons (C39)
InitSlots ==
    /\ watch = {}
    /\ disk \in {GoodDoc, OtherKeyDoc}
    /\ config = load_config(disk)
    /\ connected = FALSE
    /\ device_info = NoInfo
    /\ tiles = AllBlank
    /\ strip = NoStrip
    /\ lastOp = Unwatched
    /\ IdleXfer /\ IdleThreads

NextSlots ==
    \/ Start /\ Alone
    \/ \E page_id \in AskedPageIds : SwitchPage(page_id) /\ Alone
    \/ \E key \in Slots, req \in ButtonRequests : UpdateButton(key, req) /\ Alone
    \/ \E key \in Slots : ClearButton(key) /\ Alone
    \/ \E page_id \in AskedPageIds, key1 \in Slots, key2 \in Slots :
         SwapButtons(page_id, key1, key2) /\ Alone
    \/ \E source \in AskedPageIds, key \in Slots, target \in AskedPageIds :
         MoveButton(source, key, target) /\ Alone

SpecSlots == InitSlots /\ [][NextSlots]_vars

\* C39: on every page each button's slot field is the key it is stored under
\* in the page's button map, after load and after every sequence of
\* update_button, clear_button, swap_buttons and move_button.
C39_SlotFieldIsKey ==
    \A n \in 1 .. Len(config.pages) :
      \A k \in DOMAIN config.pages[n].buttons :
        config.pages[n].buttons[k].key = k

====
